---- MODULE Spec2Model ----
(***************************************************************************)
(* seiri: per-language extractors produce ParsedFile records, the graph    *)
(* builder folds a list of records into nodes, edges and metadata, and     *)
(* cli.main drives both.  Python values that may be None are modelled as   *)
(* tagged records (PyNone / PyStr) so that None, "" and "None" differ and  *)
(* so that isinstance and truthiness can be computed as Python does.       *)
(***************************************************************************)
EXTENDS Naturals, Sequences, FiniteSets, TLC

(***************************************************************************)
(* Bounds of the model.                                                    *)
(***************************************************************************)
\* longest Python module body (number of AST nodes) of the main file
MaxNodes == 2
\* number of parse_file calls made on one extractor instance in SpecCalls
MaxCalls == 3

(***************************************************************************)
(* Python values.                                                          *)
(***************************************************************************)
PyNone == [type |-> "NoneType"]
PyStr(s) == [type |-> "str", val |-> s]

\* bool(x): None and "" are falsy; dataclass instances define neither
\* __bool__ nor __len__ and are always truthy
Truthy(x) ==
  CASE x.type = "NoneType" -> FALSE
    [] x.type = "str" -> x.val # ""
    [] OTHER -> TRUE

\* isinstance(x, cls) for the classes of datatypes.py
IsInstance(x, cls) == x.type = cls

\* d[key] = value on a dict modelled as a function
DictSet(d, key, value) ==
  [k \in DOMAIN d \cup {key} |-> IF k = key THEN value ELSE d[k]]

(***************************************************************************)
(* pathlib.Path: a tuple of parts.  str(p) joins the parts with "/",       *)
(* p.name is the last part.                                                *)
(***************************************************************************)
Path(parts) == [parts |-> parts]

RECURSIVE JoinParts(_)
JoinParts(parts) ==
  IF Len(parts) = 1 THEN parts[1]
  ELSE parts[1] \o "/" \o JoinParts(Tail(parts))

PathStr(p) == JoinParts(p.parts)
PathName(p) == p.parts[Len(p.parts)]
\* the extension after the last dot of the name, as rglob("*.ext") matches it
PathExt(p) ==
  CASE PathName(p) \in {"a.py"} -> "py"
    [] PathName(p) \in {"lib.rs"} -> "rs"
    [] PathName(p) \in {"app.js"} -> "js"
    [] OTHER -> ""

MainPy == Path(<<"a.py">>)
PkgPy == Path(<<"pkg", "a.py">>)
LibRs == Path(<<"lib.rs">>)
SrcRs == Path(<<"src", "lib.rs">>)
AppJs == Path(<<"app.js">>)
Paths == {MainPy, PkgPy, LibRs, SrcRs, AppJs}

\* Path(filepath) for a string that str() of a path produced
PathOf(s) == CHOOSE p \in Paths : PathStr(p) = s

(***************************************************************************)
(* datatypes.py                                                            *)
(***************************************************************************)
ImportNode(name, module, alias, level) ==
  [type |-> "ImportNode", name |-> name, module |-> module, alias |-> alias,
   level |-> level]

FunctionNode(name, args, decorators, is_async) ==
  [type |-> "FunctionNode", name |-> name, args |-> args,
   decorators |-> decorators, is_async |-> is_async]

FunctionRefNode(name, object) ==
  [type |-> "FunctionRefNode", name |-> name, object |-> object]

ContainerNode(name, bases, container_vars) ==
  [type |-> "ContainerNode", name |-> name, bases |-> bases,
   container_vars |-> container_vars]

ContainerRefNode(name, object, method) ==
  [type |-> "ContainerRefNode", name |-> name, object |-> object,
   method |-> method]

\* ParsedFile(language, path): the five lists start empty (default_factory)
ParsedFile(language, path) ==
  [type |-> "ParsedFile", language |-> language, path |-> path,
   imports |-> <<>>, functions |-> <<>>, function_refs |-> <<>>,
   containers |-> <<>>, container_refs |-> <<>>]

add_import(pf, n) == [pf EXCEPT !.imports = Append(@, n)]
add_function(pf, n) == [pf EXCEPT !.functions = Append(@, n)]
add_function_ref(pf, n) == [pf EXCEPT !.function_refs = Append(@, n)]
add_container(pf, n) == [pf EXCEPT !.containers = Append(@, n)]
add_container_ref(pf, n) == [pf EXCEPT !.container_refs = Append(@, n)]

(***************************************************************************)
(* Python sources, as the sequence of AST nodes ast.walk yields.           *)
(***************************************************************************)
Alias(name, asname) == [name |-> name, asname |-> asname]
Import(names) == [node |-> "Import", names |-> names]
ImportFrom(module, names, level) ==
  [node |-> "ImportFrom", module |-> module, names |-> names, level |-> level]
FunctionDef(name, args, decorator_list) ==
  [node |-> "FunctionDef", name |-> name, args |-> args,
   decorator_list |-> decorator_list]
AsyncFunctionDef(name, args, decorator_list) ==
  [node |-> "AsyncFunctionDef", name |-> name, args |-> args,
   decorator_list |-> decorator_list]
ClassDef(name, bases, body) ==
  [node |-> "ClassDef", name |-> name, bases |-> bases, body |-> body]
Name(id) == [node |-> "Name", id |-> id]
\* value is kept as the text ast.unparse renders for it
Attribute(value, attr) == [node |-> "Attribute", value |-> value, attr |-> attr]
Call(func) == [node |-> "Call", func |-> func]
Assign(targets) == [node |-> "Assign", targets |-> targets]

\* ast.unparse of a Name or Attribute expression
Unparse(e) ==
  IF e.node = "Name" THEN e.id ELSE e.value \o "." \o e.attr

\* s[0].isupper() for the identifiers of the model
FirstIsUpper(s) == s \in {"Foo", "Bar"}

\* the concatenation of a sequence of sequences, in order
RECURSIVE Flatten(_)
Flatten(ss) == IF ss = <<>> THEN <<>> ELSE Head(ss) \o Flatten(Tail(ss))

(***************************************************************************)
(* parsers/python.py: PythonParser.  Each _extract_* walks the tree and    *)
(* appends to self._parsed_file; here each yields the records it appends,  *)
(* in order.                                                               *)
(***************************************************************************)
\* an extraction that records every import as absolute
ImportsOfNodeAbsolute(n) ==
  IF n.node \in {"Import", "ImportFrom"}
  THEN [i \in 1..Len(n.names) |->
          ImportNode(n.names[i].name,
                     IF n.node = "Import" THEN PyNone ELSE n.module,
                     n.names[i].asname, 0)]
  ELSE <<>>

\* lines 50-70: the records one node of the walk gives
ImportsOfNode(n) ==
  IF n.node = "Import"
  THEN [i \in 1..Len(n.names) |->
          ImportNode(n.names[i].name, PyNone, n.names[i].asname, 0)]
  ELSE IF n.node = "ImportFrom"
  THEN [i \in 1..Len(n.names) |->
          ImportNode(n.names[i].name, n.module, n.names[i].asname, n.level)]
  ELSE <<>>

PythonParser_extract_imports(tree) ==
  Flatten([i \in 1..Len(tree) |-> ImportsOfNode(tree[i])])

\* decorator / base expressions: a Name gives its id, an Attribute its
\* dotted text, anything else is dropped
DottedNames(exprs) ==
  Flatten([i \in 1..Len(exprs) |->
     IF exprs[i].node = "Name" THEN <<exprs[i].id>>
     ELSE IF exprs[i].node = "Attribute" THEN <<Unparse(exprs[i])>>
     ELSE <<>>])

\* isinstance(node, ast.FunctionDef): ast.AsyncFunctionDef is no subclass
FunctionsOfNode(n) ==
  IF n.node # "FunctionDef" THEN <<>>
  ELSE <<FunctionNode(n.name, n.args.args, DottedNames(n.decorator_list),
                      n.node = "AsyncFunctionDef")>>

PythonParser_extract_functions(tree) ==
  Flatten([i \in 1..Len(tree) |-> FunctionsOfNode(tree[i])])

\* a classification that goes by the capital letter for member calls too
CallRefsOfNodeByCapital(n) ==
  IF n.node # "Call" THEN <<>>
  ELSE IF n.func.node = "Name"
  THEN IF FirstIsUpper(n.func.id)
       THEN <<ContainerRefNode(n.func.id, PyNone, PyNone)>>
       ELSE <<FunctionRefNode(n.func.id, PyNone)>>
  ELSE IF n.func.node = "Attribute"
  THEN IF FirstIsUpper(n.func.attr)
       THEN <<ContainerRefNode(n.func.attr, PyStr(n.func.value), PyNone)>>
       ELSE <<FunctionRefNode(n.func.attr, PyStr(n.func.value))>>
  ELSE <<>>

\* lines 102-124: the references one node of the walk gives
CallRefsOfNode(n) ==
  IF n.node # "Call" THEN <<>>
  ELSE IF n.func.node = "Name"
  THEN IF FirstIsUpper(n.func.id)
       THEN <<ContainerRefNode(n.func.id, PyNone, PyNone)>>
       ELSE <<FunctionRefNode(n.func.id, PyNone)>>
  ELSE IF n.func.node = "Attribute"
  THEN <<FunctionRefNode(n.func.attr, PyStr(n.func.value))>>
  ELSE <<>>

PythonParser_extract_function_refs(tree) ==
  Flatten([i \in 1..Len(tree) |-> CallRefsOfNode(tree[i])])

ContainerVarsOf(body) ==
  Flatten([i \in 1..Len(body) |->
     IF body[i].node = "Assign"
     THEN Flatten([j \in 1..Len(body[i].targets) |->
            IF body[i].targets[j].node = "Name"
            THEN <<body[i].targets[j].id>> ELSE <<>>])
     ELSE <<>>])

ContainersOfNode(n) ==
  IF n.node # "ClassDef" THEN <<>>
  ELSE <<ContainerNode(n.name, DottedNames(n.bases), ContainerVarsOf(n.body))>>

PythonParser_extract_containers(tree) ==
  Flatten([i \in 1..Len(tree) |-> ContainersOfNode(tree[i])])

\* _extract_container_refs is `pass`
PythonParser_extract_container_refs(tree) == <<>>

\* the add_* call each appended record goes through
AddRecord(pf, n) ==
  CASE n.type = "ImportNode" -> add_import(pf, n)
    [] n.type = "FunctionNode" -> add_function(pf, n)
    [] n.type = "FunctionRefNode" -> add_function_ref(pf, n)
    [] n.type = "ContainerNode" -> add_container(pf, n)
    [] n.type = "ContainerRefNode" -> add_container_ref(pf, n)

RECURSIVE AddAll(_, _)
AddAll(pf, ns) == IF ns = <<>> THEN pf ELSE AddAll(AddRecord(pf, Head(ns)), Tail(ns))

\* every append of one parse_file call, in program order (lines 40-44)
PythonParser_appends(tree) ==
  PythonParser_extract_imports(tree) \o PythonParser_extract_functions(tree)
    \o PythonParser_extract_function_refs(tree)
    \o PythonParser_extract_containers(tree)
    \o PythonParser_extract_container_refs(tree)

(***************************************************************************)
(* File contents.  kind is "absent" (never there), "missing" (found by the *)
(* directory walk, gone when parse_file looks), "undecodable" (not UTF-8), *)
(* "invalid" (Python the grammar rejects) or "source".  A Python source is *)
(* its tree; a Rust or JavaScript source is the sequence of the fragments  *)
(* of its text the patterns can match.                                     *)
(***************************************************************************)
Absent == [kind |-> "absent"]
Missing == [kind |-> "missing"]
Undecodable == [kind |-> "undecodable"]
Invalid == [kind |-> "invalid"]
Source(body) == [kind |-> "source", body |-> body]

Returned(v) == [outcome |-> "return", value |-> v]
Raised(e) == [outcome |-> "raise", exc |-> e]

\* a parse_file that answers a file that is not there with the "error" record
PythonParser_parse_file_lenient(filepath, content) ==
  IF content.kind \in {"absent", "missing", "undecodable"}
  THEN Returned(ParsedFile("error", PathOf(filepath)))
  ELSE IF content.kind = "invalid" THEN Raised("SyntaxError")
  ELSE Returned(AddAll(ParsedFile("python", PathOf(filepath)),
                       PythonParser_appends(content.body)))

\* a parse_file that answers a source the grammar rejects with the record it
\* has just created
PythonParser_parse_file_swallowing(filepath, content) ==
  IF content.kind \in {"absent", "missing"} THEN Raised("FileNotFoundError")
  ELSE IF content.kind = "undecodable"
  THEN Returned(ParsedFile("error", PathOf(filepath)))
  ELSE IF content.kind = "invalid"
  THEN Returned(ParsedFile("python", PathOf(filepath)))
  ELSE Returned(AddAll(ParsedFile("python", PathOf(filepath)),
                       PythonParser_appends(content.body)))

\* PythonParser.parse_file run alone, start to end
PythonParser_parse_file(filepath, content) ==
  IF content.kind \in {"absent", "missing"} THEN Raised("FileNotFoundError")
  ELSE IF content.kind = "undecodable"
  THEN Returned(ParsedFile("error", PathOf(filepath)))
  ELSE IF content.kind = "invalid" THEN Raised("SyntaxError")
  ELSE Returned(AddAll(ParsedFile("python", PathOf(filepath)),
                       PythonParser_appends(content.body)))

(***************************************************************************)
(* parsers/rust.py: RustParser.  A fragment [pat, val] is a piece of text  *)
(* that pattern pat matches with capture val; re.findall yields the        *)
(* captures of a pattern in text order.                                    *)
(***************************************************************************)
Frag(pat, val) == [pat |-> pat, val |-> val]

FindAll(pat, text) ==
  Flatten([i \in 1..Len(text) |->
             IF text[i].pat = pat THEN <<text[i].val>> ELSE <<>>])

\* an extraction that takes every piece of the text for a use statement
RustParser_extract_imports_any(data) ==
  [i \in 1..Len(data) |-> ImportNode(data[i].val, PyNone, PyNone, 0)]

\* lines 43-48
RustParser_extract_imports(data) ==
  LET m == FindAll("use", data)
  IN [i \in 1..Len(m) |-> ImportNode(m[i], PyNone, PyNone, 0)]

RustParser_extract_functions(data) ==
  LET m == FindAll("fn", data)
  IN [i \in 1..Len(m) |-> FunctionNode(m[i], <<>>, <<>>, FALSE)]

\* an extraction that leaves out the impl of a name a struct already gave
RustParser_extract_containers_distinct(data) ==
  LET s == FindAll("struct", data)
      m == SelectSeq(FindAll("impl", data),
                     LAMBDA x : \A i \in 1..Len(s) : s[i] # x)
  IN [i \in 1..Len(s) |-> ContainerNode(s[i], <<>>, <<>>)]
       \o [i \in 1..Len(m) |-> ContainerNode(m[i], <<>>, <<>>)]

\* lines 60-71
RustParser_extract_containers(data) ==
  LET s == FindAll("struct", data)
      m == FindAll("impl", data)
  IN [i \in 1..Len(s) |-> ContainerNode(s[i], <<>>, <<>>)]
       \o [i \in 1..Len(m) |-> ContainerNode(m[i], <<>>, <<>>)]

RustParser_appends(data) ==
  RustParser_extract_imports(data) \o RustParser_extract_functions(data)
    \o RustParser_extract_containers(data)

\* a parse_file that lets the decoding error of the read through
RustParser_parse_file_strict(filepath, content) ==
  IF content.kind \in {"absent", "missing"} THEN Raised("FileNotFoundError")
  ELSE IF content.kind = "undecodable" THEN Raised("UnicodeDecodeError")
  ELSE Returned(AddAll(ParsedFile("rust", PathOf(filepath)),
                       RustParser_appends(content.body)))

\* RustParser.parse_file run alone, start to end
RustParser_parse_file(filepath, content) ==
  IF content.kind \in {"absent", "missing"} THEN Raised("FileNotFoundError")
  ELSE IF content.kind = "undecodable"
  THEN Returned(ParsedFile("error", PathOf(filepath)))
  ELSE Returned(AddAll(ParsedFile("rust", PathOf(filepath)),
                       RustParser_appends(content.body)))

(***************************************************************************)
(* parsers/javascript.py: JavaScriptParser.  The value returned for a      *)
(* decodable file is a plain dict, not a ParsedFile.                       *)
(***************************************************************************)
NameDicts(names) == [i \in 1..Len(names) |-> [name |-> names[i]]]

JavaScriptParser_parse_file(filepath, content) ==
  IF content.kind \in {"absent", "missing"} THEN Raised("FileNotFoundError")
  ELSE IF content.kind = "undecodable"
  THEN Returned(ParsedFile("error", PathOf(filepath)))
  ELSE LET imports == FindAll("import_from", content.body)
                        \o FindAll("import", content.body)
                        \o FindAll("require", content.body)
           functions == FindAll("function", content.body)
                          \o FindAll("const", content.body)
                          \o FindAll("colon_function", content.body)
                          \o FindAll("arrow", content.body)
           classes == FindAll("class", content.body)
       IN Returned([type |-> "dict", imports |-> imports,
                    functions |-> NameDicts(functions),
                    classes |-> NameDicts(classes), calls |-> <<>>])

(***************************************************************************)
(* parsers/utils/registry.py                                               *)
(***************************************************************************)
BuiltinParsers ==
  [k \in {"python", "javascript", "rust"} |->
     CASE k = "python" -> "PythonParser"
       [] k = "javascript" -> "JavaScriptParser"
       [] k = "rust" -> "RustParser"]

\* dict.get: the registered class, or None
get_parser(parsers, language) ==
  IF language \in DOMAIN parsers THEN PyStr(parsers[language]) ELSE PyNone

\* a registration that keeps the class a key already has (dict.setdefault)
register_parser_once(parsers, language, parser_class) ==
  IF language \in DOMAIN parsers THEN parsers
  ELSE DictSet(parsers, language, parser_class)

\* lines 19-21: self._parsers[language] = parser_class
register_parser(parsers, language, parser_class) ==
  DictSet(parsers, language, parser_class)

\* lines 27-31: the three registrations, in order
load_builtin_parsers(parsers) ==
  register_parser(
    register_parser(
      register_parser(parsers, "python", "PythonParser"),
      "javascript", "JavaScriptParser"),
    "rust", "RustParser")

\* lines 15-17: _parsers after __init__
ParserRegistry_init == load_builtin_parsers(<<>>)

get_file_extensions(cls) ==
  CASE cls = "PythonParser" -> <<"py">>
    [] cls = "JavaScriptParser" -> <<"js", "ts", "jsx", "tsx">>
    [] cls = "RustParser" -> <<"rs">>

parse_file(cls, filepath, content) ==
  CASE cls = "PythonParser" -> PythonParser_parse_file(filepath, content)
    [] cls = "JavaScriptParser" -> JavaScriptParser_parse_file(filepath, content)
    [] cls = "RustParser" -> RustParser_parse_file(filepath, content)


(***************************************************************************)
(* core/graph_builder.py: GraphBuilder                                     *)
(***************************************************************************)
HasAttr(x, attr) == attr \in DOMAIN x

\* the counts with those of the definitions and of the references exchanged
extract_metadata_exchanged(data) ==
  [import_count |-> Len(data.imports),
   function_count |-> Len(data.function_refs),
   function_ref_count |-> Len(data.functions),
   container_count |-> Len(data.container_refs),
   container_ref_count |-> Len(data.containers)]

\* lines 74-82
extract_metadata(data) ==
  [import_count |-> Len(data.imports),
   function_count |-> Len(data.functions),
   function_ref_count |-> Len(data.function_refs),
   container_count |-> Len(data.containers),
   container_ref_count |-> Len(data.container_refs)]

\* a node id taken from the file's name alone
FileNodeIdByName(parsed_file) == PathName(parsed_file.path)

\* lines 24-32: the node of one parsed file
FileNodeId(parsed_file) == PathStr(parsed_file.path)

FileNode(parsed_file) ==
  [id |-> FileNodeId(parsed_file), type |-> "file",
   language |-> parsed_file.language, name |-> PathName(parsed_file.path),
   metadata |-> extract_metadata(parsed_file)]

\* an edge source taken from the file's name alone
EdgeSourceByName(parsed_file) == PathName(parsed_file.path)

\* lines 41, 53: the source of an edge of one parsed file
EdgeSource(parsed_file) == PathStr(parsed_file.path)

Edge(source, target, type) ==
  [source |-> source, target |-> target, type |-> type, weight |-> 1]

\* lines 37-46
ImportEdges(parsed_file) ==
  Flatten([i \in 1..Len(parsed_file.imports) |->
     IF Truthy(parsed_file.imports[i])
     THEN <<Edge(EdgeSource(parsed_file), parsed_file.imports[i].module, "import")>>
     ELSE <<>>])

\* lines 49-58
CallEdges(parsed_file) ==
  Flatten([i \in 1..Len(parsed_file.function_refs) |->
     IF Truthy(parsed_file.function_refs[i])
     THEN <<Edge(EdgeSource(parsed_file), parsed_file.function_refs[i].object, "call")>>
     ELSE <<>>])

RECURSIVE MergeEdges(_)
\* equal edges made one, its weight the number of them
MergeEdges(edges) ==
  IF edges = <<>> THEN <<>>
  ELSE LET e == Head(edges)
           same == SelectSeq(Tail(edges), LAMBDA x : x = e)
       IN <<[e EXCEPT !.weight = 1 + Len(same)]>>
            \o MergeEdges(SelectSeq(Tail(edges), LAMBDA x : x # e))

\* a graph in which the edges between the same two nodes are aggregated
AllEdgesMerged(parse_results) ==
  MergeEdges(Flatten([i \in 1..Len(parse_results) |->
     ImportEdges(parse_results[i]) \o CallEdges(parse_results[i])]))

\* the edges with those of the calls of a file put before those of its imports
AllEdgesCallsFirst(parse_results) ==
  Flatten([i \in 1..Len(parse_results) |->
     CallEdges(parse_results[i]) \o ImportEdges(parse_results[i])])

\* lines 35-58
AllEdges(parse_results) ==
  Flatten([i \in 1..Len(parse_results) |->
     ImportEdges(parse_results[i]) \o CallEdges(parse_results[i])])

\* lines 88-98: the set external_deps; the target of an edge is a str or
\* None, and the loop skips every target that is no ImportNode
find_external_dependencies(parse_results, edges) ==
  LET internal_files == {PathStr(parse_results[i].path) : i \in 1..Len(parse_results)}
  IN {edges[i].target.module.val : i \in
        {j \in 1..Len(edges) :
           /\ IsInstance(edges[j].target, "ImportNode")
           /\ edges[j].target.module # PyNone
           /\ edges[j].target.module.val \notin internal_files}}

ExternalNode(dep) == [id |-> dep, type |-> "external", name |-> dep, metadata |-> <<>>]

\* the lists list(a_set) can be: every order of the elements
Orderings(S) ==
  {f \in [1..Cardinality(S) -> S] : \A i, j \in 1..Cardinality(S) : f[i] = f[j] => i = j}

\* attribute access on a record that is not a ParsedFile raises
BuildGraphRaises(parse_results) ==
  \E i \in 1..Len(parse_results) : ~HasAttr(parse_results[i], "language")

\* a count of the records that leaves the "error" records out
total_files_without_errors(parse_results) ==
  Len(SelectSeq(parse_results, LAMBDA pf : pf.language # "error"))

\* line 69
total_files(parse_results) == Len(parse_results)

\* line 70: the set the list is made from
LanguageSet(parse_results) ==
  {parse_results[i].language : i \in 1..Len(parse_results)}

\* build_graph with external_deps listed in the order deps and the set of
\* languages listed in the order langs
build_graph(parse_results, deps, langs) ==
  [nodes |-> [i \in 1..Len(parse_results) |-> FileNode(parse_results[i])]
               \o [i \in 1..Len(deps) |-> ExternalNode(deps[i])],
   edges |-> AllEdges(parse_results),
   metadata |-> [total_files |-> total_files(parse_results),
                 languages |-> langs]]


(***************************************************************************)
(* The files a run can meet.                                               *)
(***************************************************************************)
NoArgs == [posonlyargs |-> <<>>, args |-> <<>>, kwonlyargs |-> <<>>]

PyNodes ==
  { Import(<<Alias("numpy", PyNone)>>),
    ImportFrom(PyStr("numpy"), <<Alias("x", PyNone), Alias("y", PyStr("z"))>>, 0),
    ImportFrom(PyStr("a.py"), <<Alias("foo", PyNone)>>, 0),
    ImportFrom(PyNone, <<Alias("x", PyNone)>>, 1),
    Call(Name("Foo")),
    Call(Name("foo")),
    Call(Attribute("obj", "bar")),
    FunctionDef("foo", [NoArgs EXCEPT !.args = <<"size">>], <<Name("cache")>>),
    AsyncFunctionDef("fetch", NoArgs, <<>>),
    ClassDef("Foo", <<Name("Bar")>>, <<Assign(<<Name("limit")>>)>>) }

SeqsUpTo(S, n) == UNION {[1..k -> S] : k \in 0..n}

PySources == {Source(t) : t \in SeqsUpTo(PyNodes, MaxNodes)}

RustSources ==
  { Source(<<>>),
    Source(<<Frag("use", "std::io"), Frag("fn", "main"), Frag("call", "run")>>),
    Source(<<Frag("struct", "Foo"), Frag("impl", "Foo")>>) }

JsSources ==
  { Source(<<Frag("import_from", "react"), Frag("function", "render"),
             Frag("class", "App")>>) }

\* what each path of the model can hold
Contents(p) ==
  CASE p = PkgPy -> {Absent, Missing, Undecodable, Invalid} \cup PySources
    [] p = MainPy -> {Absent, Undecodable,
                      Source(<<Call(Attribute("obj", "bar"))>>)}
    [] p = LibRs -> {Absent, Missing, Undecodable} \cup RustSources
    [] p = SrcRs -> {Absent, Source(<<Frag("use", "std::fmt")>>)}
    [] p = AppJs -> {Absent, Undecodable} \cup JsSources

(***************************************************************************)
(* cli.py                                                                  *)
(***************************************************************************)
\* the keys of language_indicators, in order, and the extension patterns
\* among their indicators
IndicatorOrder == <<"python", "javascript", "rust", "go", "java", "cpp">>

IndicatorExts(lang) ==
  CASE lang = "python" -> {"py"}
    [] lang = "javascript" -> {"js", "ts"}
    [] lang = "rust" -> {"rs"}
    [] lang = "go" -> {"go"}
    [] lang = "java" -> {"java"}
    [] lang = "cpp" -> {"cpp", "hpp", "c", "h"}

\* detect_project_languages on a directory without .gitignore
detect_project_languages(tree) ==
  SelectSeq(IndicatorOrder,
            LAMBDA lang : \E p \in Paths :
               tree[p].kind # "absent" /\ PathExt(p) \in IndicatorExts(lang))

\* lines 30-40: the directory names find_files_by_extensions leaves out
ExcludedParts ==
  {"__pycache__", "site-packages", "venv", ".venv", "env", "node_modules",
   ".git", "target", "build"}

\* lines 24-43: the files rglob("*.ext") yields that pass the filter (no
\* file name of the model starts with a dot)
FoundFiles(tree, ext) ==
  {PathStr(p) : p \in {q \in Paths :
      /\ tree[q].kind # "absent"
      /\ PathExt(q) = ext
      /\ \A i \in DOMAIN q.parts : q.parts[i] \notin ExcludedParts}}

RECURSIVE find_files_by_extensions(_, _)
\* the lists find_files_by_extensions can return: the files of each pattern
\* in turn, those of one pattern in the order the directory walk gives
find_files_by_extensions(tree, extensions) ==
  IF extensions = <<>> THEN {<<>>}
  ELSE {a \o b : a \in Orderings(FoundFiles(tree, Head(extensions))),
                 b \in find_files_by_extensions(tree, Tail(extensions))}

VARIABLES
  fs,                 \* the project directory: path -> content
  arg_language,       \* args.language
  pc,                 \* where main is
  languages,          \* main's languages
  lang_i,             \* index of the language of the outer loop
  parser,             \* the class of main's parser instance
  files,              \* main's files
  file_i,             \* index of the file of the inner loop
  all_parse_results,  \* main's all_parse_results
  skipped,            \* files whose parse_file raised ("Error parsing ...")
  attempted,          \* the files main has called parse_file with, in call order
  graph_data,         \* what build_graph returned, or the exception
  heap,               \* the ParsedFile objects constructed so far
  self_parsed_file,   \* the extractor instance's _parsed_file: an index of heap
  threads,            \* the parse_file calls in progress on that instance
  legacy_self,        \* the attributes of an instance of the first PythonParser
  returned,           \* the outcomes of the calls made on one instance
  self_parsers,       \* a ParserRegistry's _parsers, None before __init__
  registry_calls,     \* the register_parser / get_parser calls made on it
  walk_i,             \* _extract_function_refs: index of the node ast.walk yields next
  detect_call         \* a detect_project_languages call: its path, loop index and list

main_vars == <<arg_language, pc, languages, lang_i, files, file_i,
               all_parse_results, skipped, attempted, graph_data>>
par_vars == <<heap, self_parsed_file, threads>>
calls_vars == <<legacy_self, returned>>
reg_vars == <<self_parsers, registry_calls>>
walk_vars == <<walk_i>>
detect_vars == <<detect_call>>

vars == <<fs, parser, main_vars, par_vars, calls_vars, reg_vars, walk_vars,
          detect_vars>>

\* no interleaved calls are in progress
ParIdle == heap = <<>> /\ self_parsed_file = 0 /\ threads = <<>>
\* no repeated calls have been made
CallsIdle == legacy_self = PyNone /\ returned = <<>>
\* no registry is under observation
RegIdle == self_parsers = PyNone /\ registry_calls = <<>>
\* no walk of a tree is in progress
WalkIdle == walk_i = 0
\* no detect_project_languages call is under observation
DetectIdle == detect_call = PyNone

ArgLanguages == {PyNone, PyStr("python"), PyStr("javascript"), PyStr("rust"), PyStr("go")}

\* what path p can hold in a run with --language lang: a file no extractor
\* of the run looks for is left out
ContentsFor(lang, p) ==
  IF lang # PyNone /\ PathExt(p) \notin IndicatorExts(lang.val)
  THEN {Absent} ELSE Contents(p)

\* a project directory, and the --language argument
Init ==
  /\ arg_language \in ArgLanguages
  /\ \E a \in ContentsFor(arg_language, MainPy),
        b \in ContentsFor(arg_language, PkgPy),
        c \in ContentsFor(arg_language, LibRs),
        d \in ContentsFor(arg_language, SrcRs),
        e \in ContentsFor(arg_language, AppJs) :
       fs = [p \in Paths |->
               CASE p = MainPy -> a [] p = PkgPy -> b [] p = LibRs -> c
                 [] p = SrcRs -> d [] p = AppJs -> e]
  /\ pc = "start"
  /\ languages = <<>>
  /\ lang_i = 1
  /\ parser = PyNone
  /\ files = <<>>
  /\ file_i = 1
  /\ all_parse_results = <<>>
  /\ skipped = <<>>
  /\ attempted = <<>>
  /\ graph_data = PyNone
  /\ ParIdle
  /\ CallsIdle
  /\ RegIdle
  /\ WalkIdle
  /\ DetectIdle

\* lines 118-124
ResolveLanguages ==
  /\ pc = "start"
  /\ LET ls == IF arg_language # PyNone THEN <<arg_language.val>>
               ELSE detect_project_languages(fs)
     IN /\ languages' = ls
        /\ pc' = IF ls = <<>> THEN "done" ELSE "languages"
  /\ UNCHANGED <<fs, arg_language, lang_i, parser, files, file_i,
                 all_parse_results, skipped, attempted, graph_data>>
  /\ UNCHANGED <<par_vars, calls_vars, reg_vars, walk_vars, detect_vars>>

\* lines 131-134: no parser registered for the language
NoParserAvailable ==
  /\ pc = "languages"
  /\ lang_i <= Len(languages)
  /\ get_parser(BuiltinParsers, languages[lang_i]) = PyNone
  /\ lang_i' = lang_i + 1
  /\ UNCHANGED <<fs, arg_language, pc, languages, parser, files, file_i,
                 all_parse_results, skipped, attempted, graph_data>>
  /\ UNCHANGED <<par_vars, calls_vars, reg_vars, walk_vars, detect_vars>>

\* lines 136-140: instantiate the parser and list its files, in the order
\* the directory walk happens to give
FindFiles ==
  /\ pc = "languages"
  /\ lang_i <= Len(languages)
  /\ get_parser(BuiltinParsers, languages[lang_i]) # PyNone
  /\ LET cls == get_parser(BuiltinParsers, languages[lang_i])
     IN /\ parser' = cls
        /\ \E fl \in find_files_by_extensions(fs, get_file_extensions(cls.val)) :
             /\ files' = fl
             /\ file_i' = 1
             /\ IF fl = <<>>
                THEN lang_i' = lang_i + 1 /\ pc' = "languages"
                ELSE lang_i' = lang_i /\ pc' = "files"
  /\ UNCHANGED <<fs, arg_language, languages, all_parse_results, skipped, attempted,
                 graph_data>>
  /\ UNCHANGED <<par_vars, calls_vars, reg_vars, walk_vars, detect_vars>>

\* the end of one iteration of the inner loop
NextFile ==
  IF file_i = Len(files)
  THEN lang_i' = lang_i + 1 /\ pc' = "languages" /\ file_i' = file_i
  ELSE lang_i' = lang_i /\ pc' = "files" /\ file_i' = file_i + 1

\* lines 142-145: parse_file returns and the result is appended
ParseFileReturns ==
  /\ pc = "files"
  /\ LET r == parse_file(parser.val, files[file_i], fs[PathOf(files[file_i])])
     IN /\ r.outcome = "return"
        /\ all_parse_results' = Append(all_parse_results, r.value)
  /\ attempted' = Append(attempted, files[file_i])
  /\ NextFile
  /\ UNCHANGED <<fs, arg_language, languages, parser, files, skipped, graph_data>>
  /\ UNCHANGED <<par_vars, calls_vars, reg_vars, walk_vars, detect_vars>>

\* a try statement around the inner loop instead of inside it: the first
\* file that raises ends the files of its language
ParseFileRaisesAndStops ==
  /\ pc = "files"
  /\ LET r == parse_file(parser.val, files[file_i], fs[PathOf(files[file_i])])
     IN /\ r.outcome = "raise"
        /\ skipped' = Append(skipped, files[file_i])
  /\ attempted' = Append(attempted, files[file_i])
  /\ lang_i' = lang_i + 1 /\ pc' = "languages" /\ file_i' = file_i
  /\ UNCHANGED <<fs, arg_language, languages, parser, files, all_parse_results,
                 graph_data>>
  /\ UNCHANGED <<par_vars, calls_vars, reg_vars, walk_vars, detect_vars>>

\* lines 146-147: parse_file raises, the file is reported and skipped
ParseFileRaises ==
  /\ pc = "files"
  /\ LET r == parse_file(parser.val, files[file_i], fs[PathOf(files[file_i])])
     IN /\ r.outcome = "raise"
        /\ skipped' = Append(skipped, files[file_i])
  /\ attempted' = Append(attempted, files[file_i])
  /\ NextFile
  /\ UNCHANGED <<fs, arg_language, languages, parser, files, all_parse_results,
                 graph_data>>
  /\ UNCHANGED <<par_vars, calls_vars, reg_vars, walk_vars, detect_vars>>

\* lines 150-151: build_graph returns
BuildGraphReturns ==
  /\ pc = "languages"
  /\ lang_i > Len(languages)
  /\ ~BuildGraphRaises(all_parse_results)
  /\ \E deps \in Orderings(find_external_dependencies(all_parse_results,
                                                      AllEdges(all_parse_results))),
        langs \in Orderings(LanguageSet(all_parse_results)) :
       graph_data' = build_graph(all_parse_results, deps, langs)
  /\ pc' = "done"
  /\ UNCHANGED <<fs, arg_language, languages, lang_i, parser, files, file_i,
                 all_parse_results, skipped, attempted>>
  /\ UNCHANGED <<par_vars, calls_vars, reg_vars, walk_vars, detect_vars>>

\* lines 150-151: build_graph raises, and so does main
BuildGraphFails ==
  /\ pc = "languages"
  /\ lang_i > Len(languages)
  /\ BuildGraphRaises(all_parse_results)
  /\ graph_data' = Raised("AttributeError")
  /\ pc' = "failed"
  /\ UNCHANGED <<fs, arg_language, languages, lang_i, parser, files, file_i,
                 all_parse_results, skipped, attempted>>
  /\ UNCHANGED <<par_vars, calls_vars, reg_vars, walk_vars, detect_vars>>

Next ==
  \/ ResolveLanguages
  \/ NoParserAvailable
  \/ FindFiles
  \/ ParseFileReturns
  \/ ParseFileRaises
  \/ BuildGraphReturns
  \/ BuildGraphFails

Spec == Init /\ [][Next]_vars


(***************************************************************************)
(* Properties of the graph main builds.                                    *)
(***************************************************************************)
Built == pc = "done" /\ graph_data # PyNone

Range(f) == {f[i] : i \in DOMAIN f}
FileNodes(g) == SelectSeq(g.nodes, LAMBDA n : n.type = "file")
ExternalNodes(g) == SelectSeq(g.nodes, LAMBDA n : n.type = "external")
FileIds(g) == {n.id : n \in Range(FileNodes(g))}
\* the edge targets that are strings and are not the id of a file node
ExternalTargets(g) ==
  {e.target.val : e \in {x \in Range(g.edges) :
      x.target.type = "str" /\ x.target.val \notin FileIds(g)}}

\* C1: the built graph has an external node with id t exactly when some
\* edge has target t and t is no file node's id; there is one such node per
\* distinct t, with name = t and empty metadata.
C1_ExternalNodesAreTheNonFileTargets ==
  Built =>
    LET ext == ExternalNodes(graph_data)
    IN /\ {n.id : n \in Range(ext)} = ExternalTargets(graph_data)
       /\ Len(ext) = Cardinality(ExternalTargets(graph_data))
       /\ \A n \in Range(ext) : n.name = n.id /\ n.metadata = <<>>

\* the module/name target of an import record: its module, or its name
\* when it has no module
ImportTarget(imp) == IF Truthy(imp.module) THEN imp.module ELSE PyStr(imp.name)

ClaimedImportEdges(parsed_file) ==
  Flatten([i \in 1..Len(parsed_file.imports) |->
     IF Truthy(ImportTarget(parsed_file.imports[i]))
     THEN <<Edge(PathStr(parsed_file.path), ImportTarget(parsed_file.imports[i]),
                 "import")>>
     ELSE <<>>])

\* C2: the import edges of the built graph are, per input record and per
\* import record with a non-empty module/name target, one edge from the
\* file's path to that target with weight 1, and no others; `import numpy`
\* gives an edge with target "numpy".
C2_ImportEdgesCarryModuleOrName ==
  Built =>
    SelectSeq(graph_data.edges, LAMBDA e : e.type = "import")
      = Flatten([i \in 1..Len(all_parse_results) |->
                   ClaimedImportEdges(all_parse_results[i])])

ClaimedCallEdges(parsed_file) ==
  Flatten([i \in 1..Len(parsed_file.function_refs) |->
     IF Truthy(parsed_file.function_refs[i].object)
     THEN <<Edge(PathStr(parsed_file.path), parsed_file.function_refs[i].object,
                 "call")>>
     ELSE <<>>])

\* C3: the call edges of the built graph are exactly one edge per function
\* reference with a non-empty receiver, targeting the receiver; bare calls
\* and container references give no edge, and a receiver that is no file
\* gets an external node.
C3_CallEdgesOnlyForReceivers ==
  Built =>
    /\ SelectSeq(graph_data.edges, LAMBDA e : e.type = "call")
         = Flatten([i \in 1..Len(all_parse_results) |->
                      ClaimedCallEdges(all_parse_results[i])])
    /\ \A e \in Range(graph_data.edges) :
         (e.type = "call" /\ e.target.type = "str"
            /\ e.target.val \notin FileIds(graph_data))
         => \E n \in Range(ExternalNodes(graph_data)) : n.id = e.target.val

\* C4: the number of nodes is the number of input records plus the number
\* of distinct edge targets that are not file-node ids.
C4_NodeCount ==
  Built =>
    Len(graph_data.nodes)
      = Len(all_parse_results) + Cardinality(ExternalTargets(graph_data))

RegisteredLanguages == DOMAIN BuiltinParsers

IsParsedFileRecord(v) ==
  /\ IsInstance(v, "ParsedFile")
  /\ v.language \in RegisteredLanguages \cup {"error"}
  /\ v.language = "error" =>
       /\ v.imports = <<>> /\ v.functions = <<>> /\ v.function_refs = <<>>
       /\ v.containers = <<>> /\ v.container_refs = <<>>

\* C7: every value parse_file of a built-in extractor returned is a
\* ParsedFile whose language is a registered key or "error", and an "error"
\* record has five empty sequences.
C7_ReturnedValuesAreParsedFiles ==
  \A i \in 1..Len(all_parse_results) : IsParsedFileRecord(all_parse_results[i])

\* C8: build_graph never raises on the records the registered extractors
\* returned.
C8_BuildGraphNeverFails == pc # "failed"

\* C9: every edge of a built graph has the id of a file node of that graph
\* as its source.
C9_EdgeSourcesAreFileNodes ==
  Built => \A e \in Range(graph_data.edges) : e.source \in FileIds(graph_data)

\* a graph with edges out of two different files
C9_Witness ==
  /\ Built
  /\ \E e1, e2 \in Range(graph_data.edges) : e1.source # e2.source

DistinctPaths(records) ==
  \A i, j \in 1..Len(records) : records[i].path = records[j].path => i = j

\* C10: when the input records have pairwise distinct paths, the node ids
\* of the built graph are pairwise distinct.
C10_NodeIdsUnique ==
  (Built /\ DistinctPaths(all_parse_results)) =>
    \A i, j \in 1..Len(graph_data.nodes) :
      graph_data.nodes[i].id = graph_data.nodes[j].id => i = j

\* a graph of two files with the same name, one importing a module that is
\* no input file
C10_Witness ==
  /\ Built
  /\ DistinctPaths(all_parse_results)
  /\ \E i, j \in 1..Len(all_parse_results) :
       /\ i # j
       /\ PathName(all_parse_results[i].path) = PathName(all_parse_results[j].path)
  /\ ExternalTargets(graph_data) # {}

\* C11: every edge of a built graph has a target that is a present,
\* non-empty string, its kind is import or call, and its weight is 1.
C11_EdgesAreWellFormed ==
  Built =>
    \A e \in Range(graph_data.edges) :
      /\ IsInstance(e.target, "str")
      /\ e.target.val # ""
      /\ e.type \in {"import", "call"}
      /\ e.weight = 1

\* C12: for each input record the built graph has exactly one file node
\* whose id is the record's path; its language is the record's language and
\* its metadata holds the five counts, each the length of the record's
\* imports, functions, function references, containers and container
\* references.
C12_OneFileNodePerRecord ==
  Built =>
    /\ Len(FileNodes(graph_data)) = Len(all_parse_results)
    /\ \A i \in 1..Len(all_parse_results) :
         LET r == all_parse_results[i]
             mine == {j \in 1..Len(graph_data.nodes) :
                        /\ graph_data.nodes[j].type = "file"
                        /\ graph_data.nodes[j].id = PathStr(r.path)}
         IN /\ Cardinality(mine) = 1
            /\ \A j \in mine :
                 LET n == graph_data.nodes[j]
                 IN /\ n.language = r.language
                    /\ DOMAIN n.metadata
                         = {"import_count", "function_count", "function_ref_count",
                            "container_count", "container_ref_count"}
                    /\ n.metadata.import_count = Len(r.imports)
                    /\ n.metadata.function_count = Len(r.functions)
                    /\ n.metadata.function_ref_count = Len(r.function_refs)
                    /\ n.metadata.container_count = Len(r.containers)
                    /\ n.metadata.container_ref_count = Len(r.container_refs)

\* a graph of two records, one with two imports, a function reference and
\* no function
C12_Witness ==
  /\ Built
  /\ Len(all_parse_results) >= 2
  /\ \E i \in 1..Len(all_parse_results) :
       /\ Len(all_parse_results[i].imports) = 2
       /\ Len(all_parse_results[i].function_refs) = 1
       /\ all_parse_results[i].functions = <<>>

\* C13: the metadata of the built graph has total_files equal to the number
\* of input records, the "error" records included, and languages listing
\* exactly the distinct language values of the input records, each once.
C13_MetadataCountsFilesAndLanguages ==
  Built =>
    /\ graph_data.metadata.total_files = Len(all_parse_results)
    /\ Range(graph_data.metadata.languages)
         = {all_parse_results[i].language : i \in 1..Len(all_parse_results)}
    /\ \A i, j \in 1..Len(graph_data.metadata.languages) :
         graph_data.metadata.languages[i] = graph_data.metadata.languages[j] => i = j

\* a graph of three records: two of one language and an "error" record
C13_Witness ==
  /\ Built
  /\ Len(all_parse_results) = 3
  /\ \E i, j, k \in 1..Len(all_parse_results) :
       /\ i # j
       /\ all_parse_results[i].language = all_parse_results[j].language
       /\ all_parse_results[i].language # "error"
       /\ all_parse_results[k].language = "error"

\* source, kind and target of the edges a record gives, in the order of the
\* record's imports followed by the order of its function references
EdgeOrderOf(parsed_file) ==
  [k \in 1..Len(parsed_file.imports) |->
     <<PathStr(parsed_file.path), "import", parsed_file.imports[k].module>>]
  \o [k \in 1..Len(parsed_file.function_refs) |->
        <<PathStr(parsed_file.path), "call", parsed_file.function_refs[k].object>>]

\* C14: the file nodes of the built graph come in the order of the input
\* records and before every external node; the edges come grouped by source
\* file in the order of the input records, and within a file its import
\* edges in the order of its imports, then its call edges in the order of
\* its function references.
C14_InputOrderIsKept ==
  Built =>
    /\ Len(graph_data.nodes) >= Len(all_parse_results)
    /\ \A i \in 1..Len(graph_data.nodes) :
         IF i <= Len(all_parse_results)
         THEN /\ graph_data.nodes[i].type = "file"
              /\ graph_data.nodes[i].id = PathStr(all_parse_results[i].path)
         ELSE graph_data.nodes[i].type = "external"
    /\ [i \in 1..Len(graph_data.edges) |->
          <<graph_data.edges[i].source, graph_data.edges[i].type,
            graph_data.edges[i].target>>]
         = Flatten([i \in 1..Len(all_parse_results) |->
                      EdgeOrderOf(all_parse_results[i])])

\* a graph whose records are not in the order of their paths (pkg/a.py
\* before a.py), both with edges, the first with an import and a call
C14_Witness ==
  /\ Built
  /\ Len(all_parse_results) >= 2
  /\ all_parse_results[1].path = PkgPy
  /\ all_parse_results[2].path = MainPy
  /\ all_parse_results[1].imports # <<>>
  /\ all_parse_results[1].function_refs # <<>>
  /\ all_parse_results[2].function_refs # <<>>

\* the number of times file f was reported and skipped
TimesSkipped(f) == Cardinality({i \in 1..Len(skipped) : skipped[i] = f})

\* the files of the project that are gone when parse_file looks for them
MissingFiles == {p \in Paths : fs[p].kind = "missing"}

\* C15: parse_file on a path with no file behind it raises
\* FileNotFoundError and returns nothing; main reports that file once, and
\* the file gives no record, no node and no edge of the graph.
C15_MissingFileRaisesAndIsLeftOut ==
  \A p \in MissingFiles :
    /\ \A cls \in {"PythonParser", "RustParser"} :
         parse_file(cls, PathStr(p), fs[p]) = Raised("FileNotFoundError")
    /\ \A i \in 1..Len(all_parse_results) :
         HasAttr(all_parse_results[i], "path") => all_parse_results[i].path # p
    /\ TimesSkipped(PathStr(p)) <= 1
    /\ pc \in {"done", "failed"} => TimesSkipped(PathStr(p)) = 1
    /\ Built =>
         /\ \A n \in Range(graph_data.nodes) : n.id # PathStr(p)
         /\ \A e \in Range(graph_data.edges) : e.source # PathStr(p)

\* a graph built from a project with a Python and a Rust file that were
\* both gone, next to a file that was parsed
C15_Witness ==
  /\ Built
  /\ {PkgPy, LibRs} \subseteq MissingFiles
  /\ TimesSkipped(PathStr(PkgPy)) = 1
  /\ TimesSkipped(PathStr(LibRs)) = 1
  /\ graph_data.edges # <<>>

\* the files of the project whose bytes are not valid UTF-8
UndecodableFiles == {p \in Paths : fs[p].kind = "undecodable"}

\* the record the claim describes for an undecodable file at path p
ErrorRecord(p) ==
  [type |-> "ParsedFile", language |-> "error", path |-> p,
   imports |-> <<>>, functions |-> <<>>, function_refs |-> <<>>,
   containers |-> <<>>, container_refs |-> <<>>]

\* C16: parse_file on a file whose bytes cannot be decoded does not raise
\* and returns a record with language "error", the file's path and five
\* empty sequences; the built graph has one file node for that file, with
\* five zero counts, and no edge out of it.
C16_UndecodableFileGivesErrorRecord ==
  \A p \in UndecodableFiles :
    /\ \A cls \in {"PythonParser", "RustParser"} :
         parse_file(cls, PathStr(p), fs[p]) = Returned(ErrorRecord(p))
    /\ Built =>
         /\ Cardinality({i \in 1..Len(graph_data.nodes) :
                           graph_data.nodes[i].id = PathStr(p)}) = 1
         /\ \A n \in Range(graph_data.nodes) :
              n.id = PathStr(p) =>
                /\ n.type = "file"
                /\ n.language = "error"
                /\ n.metadata = [import_count |-> 0, function_count |-> 0,
                                 function_ref_count |-> 0, container_count |-> 0,
                                 container_ref_count |-> 0]
         /\ \A e \in Range(graph_data.edges) : e.source # PathStr(p)

\* a graph built from a project with an undecodable Python file and an
\* undecodable Rust file, next to a file with edges
C16_Witness ==
  /\ Built
  /\ {PkgPy, LibRs} \subseteq UndecodableFiles
  /\ Len(graph_data.nodes) = 3
  /\ graph_data.edges # <<>>

\* how many edges of the graph are equal to e
EdgeCount(e) ==
  Cardinality({k \in 1..Len(graph_data.edges) : graph_data.edges[k] = e})

\* C30: build_graph does not merge edges.  Every edge has weight 1, and for
\* each record and each target the graph has as many import edges from the
\* record's file to the target as the record has imports from it, and as
\* many call edges as the record has references on it: two names imported
\* from one module give two equal edges.
C30_EdgesAreNotMerged ==
  Built =>
    /\ \A e \in Range(graph_data.edges) : e.weight = 1
    /\ \A i \in 1..Len(all_parse_results) :
         LET pf == all_parse_results[i]
         IN \A t \in {e.target : e \in Range(graph_data.edges)} :
              /\ EdgeCount(Edge(EdgeSource(pf), t, "import"))
                   = Cardinality({j \in 1..Len(pf.imports) : pf.imports[j].module = t})
              /\ EdgeCount(Edge(EdgeSource(pf), t, "call"))
                   = Cardinality({j \in 1..Len(pf.function_refs) :
                                    pf.function_refs[j].object = t})

\* a graph built from `from numpy import x, y as z`: two import edges from
\* the file to numpy
C30_Witness ==
  /\ Built
  /\ fs[PkgPy] = Source(<<ImportFrom(PyStr("numpy"),
                                     <<Alias("x", PyNone), Alias("y", PyStr("z"))>>, 0)>>)
  /\ EdgeCount(Edge(PathStr(PkgPy), PyStr("numpy"), "import")) = 2

\* the files main finds for a language: none when no parser is registered
Discovered(lang) ==
  IF get_parser(BuiltinParsers, lang) = PyNone THEN {}
  ELSE UNION {FoundFiles(fs, ext) :
                ext \in Range(get_file_extensions(get_parser(BuiltinParsers, lang).val))}

\* what parse_file does with file f, called on the parser of f's language
OutcomeOf(f) ==
  LET cls == CHOOSE c \in Range(BuiltinParsers) :
               PathExt(PathOf(f)) \in Range(get_file_extensions(c))
  IN parse_file(cls, f, fs[PathOf(f)])

\* every file of every language of the run has been given to parse_file
AllAttempted ==
  \A i \in 1..Len(languages) : Discovered(languages[i]) \subseteq Range(attempted)

\* a step that calls parse_file is taken before build_graph is called, with
\* one more file of the language main is at; the record is appended when
\* the call returns, and the file is skipped when it raises
CallsParseFileBeforeBuilding ==
  attempted' # attempted =>
    /\ graph_data = PyNone
    /\ graph_data' = PyNone
    /\ \E f \in Discovered(languages[lang_i]) :
         /\ attempted' = Append(attempted, f)
         /\ IF OutcomeOf(f).outcome = "return"
            THEN /\ all_parse_results' = Append(all_parse_results, OutcomeOf(f).value)
                 /\ skipped' = skipped
            ELSE /\ all_parse_results' = all_parse_results
                 /\ skipped' = Append(skipped, f)

\* main leaves a language when each of its files has been attempted
LeavesLanguageWhenAttempted ==
  lang_i' # lang_i =>
    /\ lang_i' = lang_i + 1
    /\ Discovered(languages[lang_i]) \subseteq Range(attempted')

\* the records and the skipped files change with a call of parse_file only
RecordsComeFromCalls ==
  attempted' = attempted =>
    all_parse_results' = all_parse_results /\ skipped' = skipped

\* a step that calls build_graph is the first to do so, is taken when every
\* file has been attempted and gives it the records collected: the graph
\* has their file nodes, in their order
BuildsFromTheRecords ==
  graph_data' # graph_data =>
    /\ graph_data = PyNone
    /\ AllAttempted
    /\ attempted' = attempted
    /\ all_parse_results' = all_parse_results
    /\ IF BuildGraphRaises(all_parse_results)
       THEN graph_data' = Raised("AttributeError")
       ELSE /\ graph_data'.metadata.total_files = Len(all_parse_results)
            /\ FileNodes(graph_data')
                 = [i \in 1..Len(all_parse_results) |-> FileNode(all_parse_results[i])]

\* C24: main parses, then builds.  parse_file is called once with each file
\* found, language by language; a file whose call raised is skipped and the
\* files after it are still parsed; build_graph is called once, after every
\* file of every language has been attempted, with the records of the calls
\* that returned, in call order.
C24_ParseEveryFileThenBuildOnce ==
  /\ [](/\ \A i, j \in 1..Len(attempted) : attempted[i] = attempted[j] => i = j
        /\ Len(all_parse_results) + Len(skipped) = Len(attempted)
        /\ graph_data # PyNone => pc \in {"done", "failed"}
        /\ (pc \in {"done", "failed"} /\ languages # <<>>) => graph_data # PyNone)
  /\ [][/\ CallsParseFileBeforeBuilding
         /\ LeavesLanguageWhenAttempted
         /\ RecordsComeFromCalls
         /\ BuildsFromTheRecords]_vars

\* a graph built in a run of two languages where the first file attempted
\* raised and files attempted after it were parsed, one of them of the same
\* language
C24_Witness ==
  /\ Built
  /\ Len(languages) = 2
  /\ Len(attempted) >= 3
  /\ OutcomeOf(attempted[1]).outcome = "raise"
  /\ OutcomeOf(attempted[2]).outcome = "return"
  /\ PathExt(PathOf(attempted[1])) = PathExt(PathOf(attempted[2]))
  /\ Len(graph_data.nodes) >= 2


(***************************************************************************)
(* Two parse_file calls interleaved on one extractor instance, as a caller *)
(* gets by parallelising the inner loop of main over the instance main     *)
(* creates once per language.  Each step is one bytecode-level access to   *)
(* the shared attribute self._parsed_file; what a call computes from its   *)
(* own file between two such accesses is local to it.                      *)
(***************************************************************************)
Threads == {1, 2}

\* the class whose parse_file keeps the record in self._parsed_file
StatefulParsers == {"PythonParser", "RustParser"}

LanguageOf(cls) == IF cls = "PythonParser" THEN "python" ELSE "rust"

\* the file each of the two calls is given
ThreadFile(cls, t) ==
  IF cls = "PythonParser"
  THEN (IF t = 1 THEN MainPy ELSE PkgPy)
  ELSE (IF t = 1 THEN LibRs ELSE SrcRs)

MainIdle ==
  /\ arg_language = PyNone /\ pc = "idle" /\ languages = <<>> /\ lang_i = 1
  /\ files = <<>> /\ file_i = 1 /\ all_parse_results = <<>> /\ skipped = <<>>
  /\ attempted = <<>> /\ graph_data = PyNone

InitPar ==
  /\ MainIdle
  /\ CallsIdle
  /\ RegIdle
  /\ WalkIdle
  /\ DetectIdle
  /\ \E cls \in StatefulParsers :
       /\ parser = PyStr(cls)
       /\ \E a \in Contents(ThreadFile(cls, 1)), b \in Contents(ThreadFile(cls, 2)) :
            fs = [p \in Paths |->
                    IF p = ThreadFile(cls, 1) THEN a
                    ELSE IF p = ThreadFile(cls, 2) THEN b ELSE Absent]
       /\ threads = [t \in Threads |->
                       [pc |-> "start", filepath |-> PathStr(ThreadFile(cls, t)),
                        todo |-> <<>>, result |-> 0, exc |-> ""]]
  /\ heap = <<>>
  /\ self_parsed_file = 0

\* python.py 26-33, rust.py 24-31: the existence check and the read
ParOpen(t) ==
  /\ threads[t].pc = "start"
  /\ LET content == fs[PathOf(threads[t].filepath)]
     IN IF content.kind \in {"absent", "missing"}
        THEN /\ threads' = [threads EXCEPT ![t].pc = "raised",
                                           ![t].exc = "FileNotFoundError"]
             /\ UNCHANGED heap
        ELSE IF content.kind = "undecodable"
        THEN /\ heap' = Append(heap, ParsedFile("error", PathOf(threads[t].filepath)))
             /\ threads' = [threads EXCEPT ![t].pc = "returned",
                                           ![t].result = Len(heap) + 1]
        ELSE /\ threads' = [threads EXCEPT ![t].pc = "assign"]
             /\ UNCHANGED heap
  /\ UNCHANGED <<fs, parser, main_vars, reg_vars, walk_vars, detect_vars, self_parsed_file, calls_vars>>

\* python.py 35-38, rust.py 33: self._parsed_file = ParsedFile(...), then
\* the call works out from its own source what it will append
ParAssign(t) ==
  /\ threads[t].pc = "assign"
  /\ LET content == fs[PathOf(threads[t].filepath)]
     IN /\ heap' = Append(heap, ParsedFile(LanguageOf(parser.val),
                                           PathOf(threads[t].filepath)))
        /\ self_parsed_file' = Len(heap) + 1
        /\ threads' =
             IF parser.val = "PythonParser" /\ content.kind = "invalid"
             THEN [threads EXCEPT ![t].pc = "raised", ![t].exc = "SyntaxError"]
             ELSE [threads EXCEPT ![t].pc = "extract",
                                  ![t].todo = IF parser.val = "PythonParser"
                                              THEN PythonParser_appends(content.body)
                                              ELSE RustParser_appends(content.body)]
  /\ UNCHANGED <<fs, parser, main_vars, reg_vars, walk_vars, detect_vars, calls_vars>>

\* one self._parsed_file.add_*(...) of an _extract_* method
ParAppend(t) ==
  /\ threads[t].pc = "extract"
  /\ threads[t].todo # <<>>
  /\ heap' = [heap EXCEPT ![self_parsed_file] = AddRecord(@, Head(threads[t].todo))]
  /\ threads' = [threads EXCEPT ![t].todo = Tail(@)]
  /\ UNCHANGED <<fs, parser, main_vars, reg_vars, walk_vars, detect_vars, self_parsed_file, calls_vars>>

\* python.py 46, rust.py 41: return self._parsed_file
ParReturn(t) ==
  /\ threads[t].pc = "extract"
  /\ threads[t].todo = <<>>
  /\ threads' = [threads EXCEPT ![t].pc = "returned", ![t].result = self_parsed_file]
  /\ UNCHANGED <<fs, parser, main_vars, reg_vars, walk_vars, detect_vars, heap, self_parsed_file, calls_vars>>

NextPar ==
  \/ \E t \in Threads : ParOpen(t)
  \/ \E t \in Threads : ParAssign(t)
  \/ \E t \in Threads : ParAppend(t)
  \/ \E t \in Threads : ParReturn(t)

SpecPar == InitPar /\ [][NextPar]_vars

ParDone == threads # <<>> /\ \A t \in Threads : threads[t].pc \in {"returned", "raised"}

\* C5: when two parse_file calls for different files interleave on one
\* extractor instance, each call returns a record of its own that holds
\* exactly the facts of its own file.
C5_InterleavedCallsKeepTheirOwnFacts ==
  ParDone =>
    /\ \A t \in Threads :
         threads[t].pc = "returned" =>
           heap[threads[t].result]
             = parse_file(parser.val, threads[t].filepath,
                          fs[PathOf(threads[t].filepath)]).value
    /\ (threads[1].pc = "returned" /\ threads[2].pc = "returned")
         => threads[1].result # threads[2].result


(***************************************************************************)
(* src/parsers/python.py: the first PythonParser, whose instance keeps     *)
(* the five collections it returns.  Line numbers, argument counts, the    *)
(* symtable's local variables and the methods of a class are facts of the  *)
(* text the trees of this model do not carry; the dicts are modelled       *)
(* without them.                                                           *)
(***************************************************************************)
\* __init__, lines 14-19
SrcPythonParser_init ==
  [filepath |-> PyNone, imports |-> <<>>, functions |-> <<>>,
   function_calls |-> <<>>, classes |-> <<>>, class_calls |-> <<>>]

\* lines 51-75
SrcImportsOfNode(filepath, n) ==
  IF n.node = "Import"
  THEN [i \in 1..Len(n.names) |->
          [path |-> filepath, type |-> "import", module |-> PyStr(n.names[i].name),
           alias |-> n.names[i].asname]]
  ELSE IF n.node = "ImportFrom"
  THEN [i \in 1..Len(n.names) |->
          [type |-> filepath, module |-> n.module, name |-> n.names[i].name,
           alias |-> n.names[i].asname]]
  ELSE <<>>

\* lines 174-203: the call_info dicts, tagged with the list they go to
SrcCallsOfNode(n) ==
  IF n.node # "Call" THEN <<>>
  ELSE IF n.func.node = "Name"
  THEN <<[list |-> IF FirstIsUpper(n.func.id) THEN "class_calls" ELSE "function_calls",
          info |-> [name |-> n.func.id, type |-> "simple"]]>>
  ELSE IF n.func.node = "Attribute"
  THEN <<[list |-> "function_calls",
          info |-> [name |-> n.func.attr, type |-> "attribute",
                    object |-> n.func.value]]>>
  ELSE <<>>

RECURSIVE SrcSetFunctions(_, _)
\* lines 77-113
SrcSetFunctions(d, tree) ==
  IF tree = <<>> THEN d
  ELSE SrcSetFunctions(
         IF Head(tree).node = "FunctionDef"
         THEN DictSet(d, Head(tree).name,
                      [args |-> Head(tree).args.args,
                       decorators |-> DottedNames(Head(tree).decorator_list),
                       is_async |-> Head(tree).node = "AsyncFunctionDef"])
         ELSE d,
         Tail(tree))

RECURSIVE SrcSetClasses(_, _)
\* lines 115-172
SrcSetClasses(d, tree) ==
  IF tree = <<>> THEN d
  ELSE SrcSetClasses(
         IF Head(tree).node = "ClassDef"
         THEN DictSet(d, Head(tree).name,
                      [bases |-> DottedNames(Head(tree).bases),
                       class_variables |-> ContainerVarsOf(Head(tree).body)])
         ELSE d,
         Tail(tree))

\* lines 29-41: the instance after parse_file has walked a tree
SrcPythonParser_extract(self, filepath, tree) ==
  LET calls == Flatten([i \in 1..Len(tree) |-> SrcCallsOfNode(tree[i])])
      infos(l) == Flatten([i \in 1..Len(calls) |->
                     IF calls[i].list = l THEN <<calls[i].info>> ELSE <<>>])
  IN [filepath |-> PyStr(filepath),
      imports |-> self.imports
                    \o Flatten([i \in 1..Len(tree) |-> SrcImportsOfNode(filepath, tree[i])]),
      functions |-> SrcSetFunctions(self.functions, tree),
      function_calls |-> self.function_calls \o infos("function_calls"),
      classes |-> SrcSetClasses(self.classes, tree),
      class_calls |-> self.class_calls \o infos("class_calls")]

\* lines 43-49: the dict parse_file returns refers to the instance's own
\* collections; this is what it shows when read
SrcPythonParser_result(self) ==
  [type |-> "dict", imports |-> self.imports, functions |-> self.functions,
   function_calls |-> self.function_calls, classes |-> self.classes,
   class_calls |-> self.class_calls]

\* lines 24-32: open() and ast.parse raise; no exception is caught
SrcPythonParser_raises(content) ==
  CASE content.kind \in {"absent", "missing"} -> "FileNotFoundError"
    [] content.kind = "undecodable" -> "UnicodeDecodeError"
    [] content.kind = "invalid" -> "SyntaxError"
    [] OTHER -> ""

(***************************************************************************)
(* A caller making one parse_file call after another on one extractor      *)
(* instance, over files that do not change.                                *)
(***************************************************************************)
SrcPythonParser == "src.parsers.python.PythonParser"

ParserClasses == {"PythonParser", "RustParser", "JavaScriptParser", SrcPythonParser}

\* the files a caller hands to an extractor of class cls
FilesOf(cls) ==
  CASE cls \in {"PythonParser", SrcPythonParser} -> {MainPy, PkgPy}
    [] cls = "RustParser" -> {LibRs, SrcRs}
    [] cls = "JavaScriptParser" -> {AppJs}

\* what path p can hold when the caller drives an extractor of class cls
ContentsOf(cls, p) == IF p \in FilesOf(cls) THEN Contents(p) ELSE {Absent}

InitCalls ==
  /\ MainIdle
  /\ RegIdle
  /\ WalkIdle
  /\ DetectIdle
  /\ threads = <<>>
  /\ heap = <<>>
  /\ self_parsed_file = 0
  /\ returned = <<>>
  /\ \E cls \in ParserClasses :
       /\ parser = PyStr(cls)
       /\ legacy_self = IF cls = SrcPythonParser THEN SrcPythonParser_init ELSE PyNone
       /\ \E a \in ContentsOf(cls, MainPy), b \in ContentsOf(cls, PkgPy),
             c \in ContentsOf(cls, LibRs), d \in ContentsOf(cls, SrcRs),
             e \in ContentsOf(cls, AppJs) :
            fs = [p \in Paths |->
                    CASE p = MainPy -> a [] p = PkgPy -> b [] p = LibRs -> c
                      [] p = SrcRs -> d [] p = AppJs -> e]

\* whether parse_file of cls reaches `self._parsed_file = ParsedFile(...)`
AssignsParsedFile(cls, content) ==
  /\ cls \in StatefulParsers
  /\ content.kind \in {"invalid", "source"}

\* a call on an extractor of the seiri package returns: the object it
\* returns is new, and a stateful extractor keeps it in self._parsed_file
CallReturns ==
  /\ pc = "idle"
  /\ parser.val \in ParserClasses \ {SrcPythonParser}
  /\ Len(returned) < MaxCalls
  /\ \E p \in FilesOf(parser.val) :
       LET r == parse_file(parser.val, PathStr(p), fs[p])
       IN /\ r.outcome = "return"
          /\ heap' = Append(heap, r.value)
          /\ self_parsed_file' = IF AssignsParsedFile(parser.val, fs[p])
                                 THEN Len(heap) + 1 ELSE self_parsed_file
          /\ returned' = Append(returned,
               [filepath |-> PathStr(p), outcome |-> "return", ref |-> Len(heap) + 1,
                value |-> r.value])
  /\ UNCHANGED <<fs, parser, main_vars, reg_vars, walk_vars, detect_vars, threads, legacy_self>>

\* a call on an extractor of the seiri package raises; the Python one has
\* already replaced self._parsed_file when the grammar rejects the source
CallRaises ==
  /\ pc = "idle"
  /\ parser.val \in ParserClasses \ {SrcPythonParser}
  /\ Len(returned) < MaxCalls
  /\ \E p \in FilesOf(parser.val) :
       LET r == parse_file(parser.val, PathStr(p), fs[p])
       IN /\ r.outcome = "raise"
          /\ IF AssignsParsedFile(parser.val, fs[p])
             THEN /\ heap' = Append(heap, ParsedFile(LanguageOf(parser.val), p))
                  /\ self_parsed_file' = Len(heap) + 1
             ELSE UNCHANGED <<heap, self_parsed_file>>
          /\ returned' = Append(returned,
               [filepath |-> PathStr(p), outcome |-> "raise", exc |-> r.exc])
  /\ UNCHANGED <<fs, parser, main_vars, reg_vars, walk_vars, detect_vars, threads, legacy_self>>

\* a call on the first PythonParser returns the dict of its collections
SrcCallReturns ==
  /\ pc = "idle"
  /\ parser.val = SrcPythonParser
  /\ Len(returned) < MaxCalls
  /\ \E p \in FilesOf(parser.val) :
       /\ SrcPythonParser_raises(fs[p]) = ""
       /\ LET self == SrcPythonParser_extract(legacy_self, PathStr(p), fs[p].body)
          IN /\ legacy_self' = self
             /\ returned' = Append(returned,
                  [filepath |-> PathStr(p), outcome |-> "return", ref |-> 0,
                   value |-> SrcPythonParser_result(self)])
  /\ UNCHANGED <<fs, parser, main_vars, reg_vars, walk_vars, detect_vars, par_vars>>

\* a call on the first PythonParser raises; self.filepath is set only
\* after the read
SrcCallRaises ==
  /\ pc = "idle"
  /\ parser.val = SrcPythonParser
  /\ Len(returned) < MaxCalls
  /\ \E p \in FilesOf(parser.val) :
       /\ SrcPythonParser_raises(fs[p]) # ""
       /\ legacy_self' = IF fs[p].kind = "invalid"
                         THEN [legacy_self EXCEPT !.filepath = PyStr(PathStr(p))]
                         ELSE legacy_self
       /\ returned' = Append(returned,
            [filepath |-> PathStr(p), outcome |-> "raise",
             exc |-> SrcPythonParser_raises(fs[p])])
  /\ UNCHANGED <<fs, parser, main_vars, reg_vars, walk_vars, detect_vars, par_vars>>

NextCalls ==
  \/ CallReturns
  \/ CallRaises
  \/ SrcCallReturns
  \/ SrcCallRaises

SpecCalls == InitCalls /\ [][NextCalls]_vars

\* C6: two parse_file calls on the same unchanged file, on one extractor
\* instance and with any calls in between, yield structurally identical
\* results: what a call yields does not depend on the calls before it.
C6_RepeatedCallsYieldTheSame ==
  \A i, j \in 1..Len(returned) :
    returned[i].filepath = returned[j].filepath =>
      /\ returned[i].outcome = returned[j].outcome
      /\ returned[i].outcome = "return" => returned[i].value = returned[j].value

\* what the object a call returned shows when it is read now: a record of
\* the heap, or the dict that refers to the collections of the instance
ReadNow(r) ==
  IF r.ref = 0 THEN SrcPythonParser_result(legacy_self) ELSE heap[r.ref]

\* C17: a record parse_file has returned is not changed by the later calls
\* on the same instance, whether they return or raise: read at any later
\* time it shows what it showed when it was returned.
C17_ReturnedRecordsAreNotChanged ==
  \A i \in 1..Len(returned) :
    returned[i].outcome = "return" => ReadNow(returned[i]) = returned[i].value

\* C22: parse_file of the Python extractor on a readable file whose source
\* the grammar rejects raises SyntaxError and returns nothing: no call on
\* such a file returns, so no returned value, "error" record or other, is
\* a record of that file.
C22_RejectedSourceRaises ==
  parser.val = "PythonParser" =>
    /\ \A i \in 1..Len(returned) :
         fs[PathOf(returned[i].filepath)].kind = "invalid" =>
           /\ returned[i].outcome = "raise"
           /\ returned[i].exc = "SyntaxError"
    /\ \A i \in 1..Len(returned) :
         returned[i].outcome = "return" =>
           fs[heap[returned[i].ref].path].kind # "invalid"

\* a call on a rejected source has raised and a later call on the same
\* instance has returned
C22_Witness ==
  /\ parser.val = "PythonParser"
  /\ fs[PkgPy] = Invalid
  /\ Len(returned) >= 2
  /\ returned[1].filepath = PathStr(PkgPy)
  /\ returned[1].outcome = "raise"
  /\ returned[2].outcome = "return"

\* the extractors that work by patterns
PatternParsers == {"RustParser", "JavaScriptParser"}

\* C20: whatever the text, the record a pattern extractor returns has a
\* function_refs sequence and a container_refs sequence, and both are empty.
C20_PatternExtractorsGiveNoCallReferences ==
  parser.val \in PatternParsers =>
    \A i \in 1..Len(returned) :
      returned[i].outcome = "return" =>
        /\ HasAttr(returned[i].value, "function_refs")
        /\ HasAttr(returned[i].value, "container_refs")
        /\ returned[i].value.function_refs = <<>>
        /\ returned[i].value.container_refs = <<>>


(***************************************************************************)
(* A caller registering extractors in a ParserRegistry and looking them    *)
(* up, in any order.                                                       *)
(***************************************************************************)
\* number of register_parser / get_parser calls made after construction
MaxRegistryCalls == 3

\* the keys the caller registers under, and the classes it registers
RegisterKeys == {"python", "rust", "go"}
RegisterClasses == {"PythonParser", "RustParser", SrcPythonParser}
\* the keys the caller looks up: "java" is never registered
LookupKeys == RegisterKeys \cup {"javascript", "java"}

InitReg ==
  /\ MainIdle
  /\ ParIdle
  /\ CallsIdle
  /\ RegIdle
  /\ WalkIdle
  /\ DetectIdle
  /\ parser = PyNone
  /\ fs = [p \in Paths |-> Absent]

\* registry = ParserRegistry()
RegistryConstruct ==
  /\ pc = "idle"
  /\ self_parsers = PyNone
  /\ self_parsers' = ParserRegistry_init
  /\ UNCHANGED <<fs, parser, main_vars, par_vars, calls_vars, registry_calls, walk_vars, detect_vars>>

\* registry.register_parser(language, parser_class)
RegisterParser ==
  /\ pc = "idle"
  /\ self_parsers # PyNone
  /\ Len(registry_calls) < MaxRegistryCalls
  /\ \E language \in RegisterKeys, parser_class \in RegisterClasses :
       /\ self_parsers' = register_parser(self_parsers, language, parser_class)
       /\ registry_calls' = Append(registry_calls,
            [op |-> "register_parser", language |-> language,
             parser_class |-> parser_class])
  /\ UNCHANGED <<fs, parser, main_vars, par_vars, calls_vars, walk_vars, detect_vars>>

\* registry.get_parser(language): dict.get reads the dict and leaves it as it is
GetParser ==
  /\ pc = "idle"
  /\ self_parsers # PyNone
  /\ Len(registry_calls) < MaxRegistryCalls
  /\ \E language \in LookupKeys :
       registry_calls' = Append(registry_calls,
         [op |-> "get_parser", language |-> language,
          result |-> get_parser(self_parsers, language)])
  /\ UNCHANGED <<fs, parser, main_vars, par_vars, calls_vars, self_parsers, walk_vars, detect_vars>>

NextReg ==
  \/ RegistryConstruct
  \/ RegisterParser
  \/ GetParser

SpecReg == InitReg /\ [][NextReg]_vars

\* the registrations among the first n calls, after the three __init__ makes
RegistrationsBefore(n) ==
  <<[language |-> "python", parser_class |-> "PythonParser"],
    [language |-> "javascript", parser_class |-> "JavaScriptParser"],
    [language |-> "rust", parser_class |-> "RustParser"]>>
  \o SelectSeq(SubSeq(registry_calls, 1, n), LAMBDA c : c.op = "register_parser")

\* the class most recently registered under key k in regs, or None
RECURSIVE LastRegistered(_, _)
LastRegistered(k, regs) ==
  IF regs = <<>> THEN PyNone
  ELSE IF regs[Len(regs)].language = k THEN PyStr(regs[Len(regs)].parser_class)
  ELSE LastRegistered(k, SubSeq(regs, 1, Len(regs) - 1))

\* C18: a new registry maps python, javascript and rust to their
\* extractors; every lookup of a key returns the class most recently
\* registered under it, or None when the key was never registered; and the
\* mapping is what the registrations alone make it: a lookup changes no
\* entry and creates none.
C18_LookupReturnsLastRegistered ==
  self_parsers # PyNone =>
    /\ registry_calls = <<>> =>
         /\ get_parser(self_parsers, "python") = PyStr("PythonParser")
         /\ get_parser(self_parsers, "javascript") = PyStr("JavaScriptParser")
         /\ get_parser(self_parsers, "rust") = PyStr("RustParser")
    /\ \A i \in 1..Len(registry_calls) :
         registry_calls[i].op = "get_parser" =>
           registry_calls[i].result
             = LastRegistered(registry_calls[i].language, RegistrationsBefore(i - 1))
    /\ \A k \in LookupKeys :
         get_parser(self_parsers, k)
           = LastRegistered(k, RegistrationsBefore(Len(registry_calls)))
    /\ DOMAIN self_parsers
         = {r.language : r \in Range(RegistrationsBefore(Len(registry_calls)))}

\* a built-in key registered again with another class and then looked up,
\* and a lookup of a key that was never registered
C18_Witness ==
  /\ Len(registry_calls) = 3
  /\ registry_calls[1].op = "register_parser"
  /\ registry_calls[1].language = "python"
  /\ registry_calls[1].parser_class # "PythonParser"
  /\ registry_calls[2].op = "get_parser"
  /\ registry_calls[2].language = "python"
  /\ registry_calls[2].result = PyStr(registry_calls[1].parser_class)
  /\ registry_calls[3].op = "get_parser"
  /\ registry_calls[3].language = "java"
  /\ registry_calls[3].result = PyNone


(***************************************************************************)
(* PythonParser._extract_function_refs, node by node: the loop over        *)
(* ast.walk(tree) on the record parse_file has just created.               *)
(***************************************************************************)
\* longest tree walked
MaxWalkNodes == 3

\* a callee that is neither a name nor a member expression: handlers[0]()
Subscript == [node |-> "Subscript"]

WalkNodes ==
  { Call(Name("Foo")),
    Call(Name("foo")),
    Call(Attribute("obj", "bar")),
    Call(Attribute("obj", "Bar")),
    Call(Attribute("Foo", "create")),
    Call(Subscript),
    Name("Foo") }

InitWalk ==
  /\ MainIdle
  /\ CallsIdle
  /\ RegIdle
  /\ threads = <<>>
  /\ parser = PyStr("PythonParser")
  /\ \E tree \in SeqsUpTo(WalkNodes, MaxWalkNodes) :
       fs = [p \in Paths |-> IF p = MainPy THEN Source(tree) ELSE Absent]
  /\ heap = <<ParsedFile("python", MainPy)>>
  /\ self_parsed_file = 1
  /\ walk_i = 1
  /\ DetectIdle

\* one iteration of the loop of lines 102-124
WalkNode ==
  /\ pc = "idle"
  /\ walk_i >= 1
  /\ walk_i <= Len(fs[MainPy].body)
  /\ heap' = [heap EXCEPT ![self_parsed_file] =
                AddAll(@, CallRefsOfNode(fs[MainPy].body[walk_i]))]
  /\ walk_i' = walk_i + 1
  /\ UNCHANGED <<fs, parser, main_vars, reg_vars, self_parsed_file, threads,
                 calls_vars, detect_vars>>

NextWalk == WalkNode

SpecWalk == InitWalk /\ [][NextWalk]_vars

\* the nodes the loop has gone through
Walked == SubSeq(fs[MainPy].body, 1, walk_i - 1)

IsBareCall(n) == n.node = "Call" /\ n.func.node = "Name"
IsMemberCall(n) == n.node = "Call" /\ n.func.node = "Attribute"

\* C19: of the calls walked, each bare call name(...) whose name starts
\* with an uppercase letter has given one container reference without
\* receiver and member, each other bare call one function reference without
\* receiver, and each member call expr.name(...) one function reference
\* with name and the text of expr as receiver, whatever the capitals; in
\* the order of the calls, and nothing else.
C19_CallsAreClassifiedByCallee ==
  walk_i >= 1 =>
    LET classes == SelectSeq(Walked,
                     LAMBDA n : IsBareCall(n) /\ FirstIsUpper(n.func.id))
        others == SelectSeq(Walked,
                    LAMBDA n : \/ IsBareCall(n) /\ ~FirstIsUpper(n.func.id)
                               \/ IsMemberCall(n))
        pf == heap[self_parsed_file]
    IN /\ Len(pf.container_refs) = Len(classes)
       /\ \A i \in 1..Len(classes) :
            pf.container_refs[i]
              = [type |-> "ContainerRefNode", name |-> classes[i].func.id,
                 object |-> PyNone, method |-> PyNone]
       /\ Len(pf.function_refs) = Len(others)
       /\ \A i \in 1..Len(others) :
            pf.function_refs[i]
              = IF others[i].func.node = "Name"
                THEN [type |-> "FunctionRefNode", name |-> others[i].func.id,
                      object |-> PyNone]
                ELSE [type |-> "FunctionRefNode", name |-> others[i].func.attr,
                      object |-> PyStr(others[i].func.value)]

\* the walk of Foo(), foo() and a member call with a capital name is over
C19_Witness ==
  /\ walk_i = 4
  /\ Call(Name("Foo")) \in Range(Walked)
  /\ Call(Name("foo")) \in Range(Walked)
  /\ \E n \in Range(Walked) : IsMemberCall(n) /\ FirstIsUpper(n.func.attr)


(***************************************************************************)
(* A caller handing one Rust or JavaScript file of any text to its         *)
(* extractor: whole, partial or malformed, the text is the sequence of its *)
(* pieces, each matched by one pattern of an extractor or by none.         *)
(***************************************************************************)
\* longest text, in pieces
MaxFrags == 2

\* rust.py 44, 51, 61, 67 and javascript.py 29-31, 40-43, 51
RustPatterns == {"use", "fn", "struct", "impl"}
JsPatterns ==
  {"import_from", "import", "require", "function", "const", "colon_function",
   "arrow", "class"}

\* "none": a piece no pattern matches, such as `fn (` or `use std::io` cut
\* off before its semicolon
PatternFrags == {Frag(pat, "Foo") : pat \in RustPatterns \cup JsPatterns \cup {"none"}}

PatternTexts == {Source(t) : t \in SeqsUpTo(PatternFrags, MaxFrags)}

\* the file the caller hands to a pattern extractor
PatternFile(cls) == IF cls = "RustParser" THEN LibRs ELSE AppJs

InitPattern ==
  /\ MainIdle
  /\ CallsIdle
  /\ RegIdle
  /\ WalkIdle
  /\ DetectIdle
  /\ ParIdle
  /\ \E cls \in PatternParsers :
       /\ parser = PyStr(cls)
       /\ \E c \in PatternTexts \cup {Missing, Undecodable} :
            fs = [p \in Paths |-> IF p = PatternFile(cls) THEN c ELSE Absent]

NextPattern ==
  \/ CallReturns
  \/ CallRaises

SpecPattern == InitPattern /\ [][NextPattern]_vars

\* the categories of the value a pattern extractor returns, each with the
\* patterns that feed it
PatternCategories(cls) ==
  IF cls = "RustParser"
  THEN {<<"imports", {"use"}>>, <<"functions", {"fn"}>>,
        <<"containers", {"struct", "impl"}>>}
  ELSE {<<"imports", {"import_from", "import", "require"}>>,
        <<"functions", {"function", "const", "colon_function", "arrow"}>>,
        <<"classes", {"class"}>>}

\* the number of pieces of text that one of the patterns pats matches
MatchCount(pats, text) ==
  Cardinality({i \in 1..Len(text) : text[i].pat \in pats})

\* C21: a pattern extractor never raises on the text of an existing,
\* decodable file: whatever the text, parse_file returns a value with the
\* extractor's categories, and a category none of whose patterns matches
\* is an empty sequence.
C21_PatternExtractorsNeverRaiseOnText ==
  parser.val \in PatternParsers =>
    \A i \in 1..Len(returned) :
      LET content == fs[PathOf(returned[i].filepath)]
      IN content.kind = "source" =>
           /\ returned[i].outcome = "return"
           /\ \A c \in PatternCategories(parser.val) :
                /\ HasAttr(returned[i].value, c[1])
                /\ MatchCount(c[2], content.body) = 0
                     => returned[i].value[c[1]] = <<>>

\* the Rust extractor has returned from a text of two pieces no pattern
\* matches
C21_Witness ==
  /\ parser.val = "RustParser"
  /\ fs[LibRs] = Source(<<Frag("none", "Foo"), Frag("none", "Foo")>>)
  /\ Len(returned) >= 1
  /\ returned[1].filepath = PathStr(LibRs)
  /\ returned[1].outcome = "return"


RECURSIVE SumOfMatchCounts(_, _)
\* the match counts of the patterns pats on text, added up
SumOfMatchCounts(pats, text) ==
  IF pats = {} THEN 0
  ELSE LET pat == CHOOSE x \in pats : TRUE
       IN MatchCount({pat}, text) + SumOfMatchCounts(pats \ {pat}, text)

\* the name an element of a category carries: the JavaScript imports are
\* plain strings
NameIn(cls, category, x) ==
  IF cls = "JavaScriptParser" /\ category = "imports" THEN x ELSE x.name

\* C29: a pattern extractor keeps every match of every pattern of a
\* category: the category has as many elements as its patterns have
\* matches in all, and a name has as many elements as it has matches, so
\* `struct Foo` and `impl Foo` give two containers named Foo.
C29_MatchesAreNotDeduplicated ==
  parser.val \in PatternParsers =>
    \A i \in 1..Len(returned) :
      LET content == fs[PathOf(returned[i].filepath)]
      IN (content.kind = "source" /\ returned[i].outcome = "return") =>
           \A c \in PatternCategories(parser.val) :
             LET elements == returned[i].value[c[1]]
             IN /\ Len(elements) = SumOfMatchCounts(c[2], content.body)
                /\ \A name \in {content.body[k].val : k \in 1..Len(content.body)} :
                     Cardinality({k \in 1..Len(elements) :
                                    NameIn(parser.val, c[1], elements[k]) = name})
                       = Cardinality({k \in 1..Len(content.body) :
                                        /\ content.body[k].pat \in c[2]
                                        /\ content.body[k].val = name})

\* the Rust extractor has returned two containers named Foo for the text
\* `struct Foo` `impl Foo`, and the JavaScript one two functions for a text
\* two function patterns match
C29_Witness ==
  /\ returned # <<>>
  /\ returned[1].outcome = "return"
  /\ \/ /\ parser.val = "RustParser"
        /\ fs[LibRs] = Source(<<Frag("struct", "Foo"), Frag("impl", "Foo")>>)
        /\ Len(returned[1].value.containers) = 2
        /\ returned[1].value.containers[1].name = "Foo"
        /\ returned[1].value.containers[2].name = "Foo"
     \/ /\ parser.val = "JavaScriptParser"
        /\ fs[AppJs] = Source(<<Frag("function", "Foo"), Frag("arrow", "Foo")>>)
        /\ Len(returned[1].value.functions) = 2


(***************************************************************************)
(* cli.py: detect_project_languages, one language of the indicator table   *)
(* per step.  A name is its stem and its extension; a pattern is a name    *)
(* whose stem may be "*".  The path is a file, or a directory with the     *)
(* entries found under it (files and directories, at any depth) and the    *)
(* lines of its .gitignore, None when it has none.                         *)
(***************************************************************************)
\* most entries under the project directory
MaxEntries == 3

FileName(stem, ext) == [stem |-> stem, ext |-> ext]

\* Path.match / rglob / gitwildmatch of one pattern against a name, all
\* case-sensitive
Matches(pattern, name) ==
  /\ name.ext = pattern.ext
  /\ pattern.stem = "*" \/ pattern.stem = name.stem

\* lines 53-60
language_indicators(lang) ==
  CASE lang = "python" ->
         <<FileName("*", "py"), FileName("requirements", "txt"),
           FileName("pyproject", "toml"), FileName("setup", "py")>>
    [] lang = "javascript" ->
         <<FileName("*", "js"), FileName("package", "json"), FileName("*", "ts"),
           FileName("tsconfig", "json")>>
    [] lang = "rust" -> <<FileName("*", "rs"), FileName("Cargo", "toml")>>
    [] lang = "go" -> <<FileName("*", "go"), FileName("go", "mod")>>
    [] lang = "java" ->
         <<FileName("*", "java"), FileName("pom", "xml"),
           FileName("build", "gradle")>>
    [] lang = "cpp" ->
         <<FileName("*", "cpp"), FileName("*", "hpp"), FileName("*", "c"),
           FileName("*", "h"), FileName("CMakelists", "txt")>>

\* lines 86-91: spec.match_file of an entry, when there is a .gitignore
Ignored(project, entry) ==
  /\ project.gitignore # PyNone
  /\ \E line \in project.gitignore.lines : Matches(line, entry.name)

\* lines 81-91: what rglob(indicator) yields under a directory, files and
\* directories alike, less what .gitignore excludes; nothing under a file
RglobMatches(project, indicator) ==
  IF project.is_file THEN {}
  ELSE {e \in project.entries : Matches(indicator, e.name) /\ ~Ignored(project, e)}

\* lines 74-96: whether the loop over the indicators of lang appends lang
IndicatorFound(project, lang) ==
  \E i \in DOMAIN language_indicators(lang) :
    \/ project.is_file /\ Matches(language_indicators(lang)[i], project.name)
    \/ RglobMatches(project, language_indicators(lang)[i]) # {}

Entry(name, is_dir) == [name |-> name, is_dir |-> is_dir]

\* what can be under the project directory; highlight.js is a directory
DetectEntries ==
  { Entry(FileName("a", "py"), FALSE),
    Entry(FileName("requirements", "txt"), FALSE),
    Entry(FileName("lib", "rs"), FALSE),
    Entry(FileName("app", "ts"), FALSE),
    Entry(FileName("notes", "md"), FALSE),
    Entry(FileName("highlight", "js"), TRUE) }

Gitignores ==
  { PyNone,
    [lines |-> {}],
    [lines |-> {FileName("*", "py")}],
    [lines |-> {FileName("lib", "rs")}],
    [lines |-> {FileName("*", "py"), FileName("requirements", "txt")}] }

\* the paths detect_project_languages is called with
DetectProjects ==
  {[is_file |-> TRUE, name |-> e.name] : e \in {x \in DetectEntries : ~x.is_dir}}
  \cup {[is_file |-> FALSE, entries |-> es, gitignore |-> g] :
          es \in {x \in SUBSET DetectEntries : Cardinality(x) <= MaxEntries},
          g \in Gitignores}

InitDetect ==
  /\ MainIdle
  /\ ParIdle
  /\ CallsIdle
  /\ RegIdle
  /\ WalkIdle
  /\ parser = PyNone
  /\ fs = [p \in Paths |-> Absent]
  /\ \E project \in DetectProjects :
       detect_call = [project |-> project, i |-> 1, detected |-> <<>>]

\* one iteration of the loop of line 73
DetectLanguage ==
  /\ pc = "idle"
  /\ detect_call # PyNone
  /\ detect_call.i <= Len(IndicatorOrder)
  /\ detect_call' =
       [detect_call EXCEPT
          !.i = @ + 1,
          !.detected = IF IndicatorFound(detect_call.project,
                                         IndicatorOrder[detect_call.i])
                       THEN Append(@, IndicatorOrder[detect_call.i]) ELSE @]
  /\ UNCHANGED <<fs, parser, main_vars, par_vars, calls_vars, reg_vars, walk_vars>>

NextDetect == DetectLanguage

SpecDetect == InitDetect /\ [][NextDetect]_vars

\* the files of the project a pattern can match: the path itself, or the
\* files under it that .gitignore does not exclude
CountedFiles(project) ==
  IF project.is_file THEN {project.name}
  ELSE {e.name : e \in {x \in project.entries :
                           ~x.is_dir /\ ~Ignored(project, x)}}

\* a language is to be included when one of its patterns matches a file
\* counted
HasIndicatorFile(project, lang) ==
  \E i \in DOMAIN language_indicators(lang), n \in CountedFiles(project) :
    Matches(language_indicators(lang)[i], n)

\* C23: of the languages gone through, detect_project_languages lists, each
\* once and in the order of the indicator table, exactly those with a
\* pattern that matches the path itself, when it is a file, or a file under
\* it that .gitignore does not exclude; a path that holds only Python
\* sources gives ["python"].
C23_DetectedLanguagesAreThoseWithFiles ==
  detect_call # PyNone =>
    /\ detect_call.detected
         = SelectSeq(SubSeq(IndicatorOrder, 1, detect_call.i - 1),
                     LAMBDA lang : HasIndicatorFile(detect_call.project, lang))
    /\ (/\ detect_call.i > Len(IndicatorOrder)
        /\ CountedFiles(detect_call.project) = {FileName("a", "py")})
         => detect_call.detected = <<"python">>


(***************************************************************************)
(* PythonParser.parse_file on modules with nested definitions.  A module   *)
(* is the sequence of its statements, a definition holds the statements of *)
(* its body, and the tree the extractors go through is what ast.walk      *)
(* yields for it.                                                          *)
(***************************************************************************)
\* most statements of a module
MaxStmts == 2

\* ast.arguments: vararg and kwarg are a name or None
Arguments(posonlyargs, args, vararg, kwonlyargs, kwarg) ==
  [posonlyargs |-> posonlyargs, args |-> args, vararg |-> vararg,
   kwonlyargs |-> kwonlyargs, kwarg |-> kwarg]

\* a definition with the statements of its body
WithBody(def, body) ==
  [f \in DOMAIN def \cup {"body"} |-> IF f = "body" THEN body ELSE def[f]]

\* target: annotation = value, or target: annotation when value is None
AnnAssign(target, value) == [node |-> "AnnAssign", target |-> target, value |-> value]
\* a, b as the target of an assignment
TupleOf(elts) == [node |-> "Tuple", elts |-> elts]

\* ast.iter_child_nodes, statements only
ChildStatements(n) == IF "body" \in DOMAIN n THEN n.body ELSE <<>>

RECURSIVE WalkQueue(_)
\* ast.walk: breadth first, a node before the nodes under it
WalkQueue(todo) ==
  IF todo = <<>> THEN <<>>
  ELSE <<Head(todo)>> \o WalkQueue(Tail(todo) \o ChildStatements(Head(todo)))

Walk(module) == WalkQueue(module)

OneArg(a) == Arguments(<<>>, <<a>>, PyNone, <<>>, PyNone)

\* the statements a module of the model is made of
ExtractStmts ==
  { Import(<<Alias("os", PyNone), Alias("numpy", PyStr("np"))>>),
    ImportFrom(PyStr("pkg.mod"), <<Alias("x", PyNone), Alias("y", PyStr("z"))>>, 0),
    ImportFrom(PyNone, <<Alias("x", PyNone)>>, 1),
    ImportFrom(PyStr("sibling"),
               <<Alias("a", PyNone), Alias("b", PyNone), Alias("c", PyNone)>>, 2),
    \* def outer(size): import json; def inner(n): ...
    WithBody(FunctionDef("outer", OneArg("size"), <<>>),
             << Import(<<Alias("json", PyNone)>>),
                WithBody(FunctionDef("inner", OneArg("n"), <<>>), <<>>) >>),
    \* async def fetch(url): ...
    WithBody(AsyncFunctionDef("fetch", OneArg("url"), <<>>), <<>>),
    \* def f(a, /, b, *rest, key, **extra): ...
    WithBody(FunctionDef("f", Arguments(<<"a">>, <<"b">>, PyStr("rest"), <<"key">>,
                                        PyStr("extra")), <<>>), <<>>),
    \* class Foo(Bar): limit = 1; x = y = 0; def __init__(self): self.value =
    \* 0; random_num = 37
    ClassDef("Foo", <<Name("Bar")>>,
             << Assign(<<Name("limit")>>),
                Assign(<<Name("x"), Name("y")>>),
                WithBody(FunctionDef("__init__", OneArg("self"), <<>>),
                         << Assign(<<Attribute("self", "value")>>),
                            Assign(<<Name("random_num")>>) >>) >>),
    \* class Config: limit: int = 3
    ClassDef("Config", <<>>, <<AnnAssign(Name("limit"), PyStr("3"))>>),
    \* class Point: a, b = 1, 2
    ClassDef("Point", <<>>, <<Assign(<<TupleOf(<<Name("a"), Name("b")>>)>>)>>),
    \* class Outer: class Inner: depth = 2
    \*              async def run(self): ...
    ClassDef("Outer", <<>>,
             << ClassDef("Inner", <<>>, <<Assign(<<Name("depth")>>)>>),
                WithBody(AsyncFunctionDef("run", OneArg("self"), <<>>), <<>>) >>) }

ExtractSources ==
  {Source(Walk(m)) : m \in SeqsUpTo(ExtractStmts, MaxStmts)} \cup {Invalid}

\* one PythonParser and the file it is called on
InitExtract ==
  /\ MainIdle
  /\ CallsIdle
  /\ RegIdle
  /\ WalkIdle
  /\ DetectIdle
  /\ ParIdle
  /\ parser = PyStr("PythonParser")
  /\ \E c \in ExtractSources :
       fs = [p \in Paths |-> IF p = MainPy THEN c ELSE Absent]

NextExtract ==
  \/ CallReturns
  \/ CallRaises

SpecExtract == InitExtract /\ [][NextExtract]_vars

\* the nodes of the walk of the file a returned record was made from
WalkedNodes(r) == fs[PathOf(r.filepath)].body

\* the records parse_file returned for a Python source
ReturnedRecords ==
  {r \in Range(returned) :
     r.outcome = "return" /\ fs[PathOf(r.filepath)].kind = "source"}

\* the function and method definitions among nodes, in order
DefinitionsIn(nodes) ==
  SelectSeq(nodes, LAMBDA n : n.node \in {"FunctionDef", "AsyncFunctionDef"})

\* C25: the record of a Python file has one FunctionNode per function or
\* method definition of the file, nested and asynchronous ones included,
\* and is_async is true exactly on those of asynchronous definitions.
C25_OneFunctionRecordPerDefinition ==
  \A r \in ReturnedRecords :
    LET defs == DefinitionsIn(WalkedNodes(r))
        functions == r.value.functions
    IN /\ Len(functions) = Len(defs)
       /\ \A i \in 1..Len(defs) :
            /\ functions[i].name = defs[i].name
            /\ functions[i].is_async = (defs[i].node = "AsyncFunctionDef")

\* the parameters a definition declares, in declaration order
DeclaredParameters(a) ==
  a.posonlyargs \o a.args
    \o (IF a.vararg = PyNone THEN <<>> ELSE <<a.vararg.val>>)
    \o a.kwonlyargs
    \o (IF a.kwarg = PyNone THEN <<>> ELSE <<a.kwarg.val>>)

\* C26: the args of a FunctionNode are the names of all the parameters its
\* definition declares, of every kind, in declaration order.
C26_ParametersOfEveryKind ==
  \A r \in ReturnedRecords :
    \A i \in 1..Len(r.value.functions) :
      \A d \in Range(DefinitionsIn(WalkedNodes(r))) :
        d.name = r.value.functions[i].name
          => r.value.functions[i].args = DeclaredParameters(d.args)

\* the names a target of an assignment binds
TargetNames(t) ==
  IF t.node = "Name" THEN <<t.id>>
  ELSE IF t.node = "Tuple"
  THEN Flatten([i \in 1..Len(t.elts) |->
                  IF t.elts[i].node = "Name" THEN <<t.elts[i].id>> ELSE <<>>])
  ELSE <<>>

\* the names the statements of a class body assign, in order; the
\* statements inside a method are not statements of the class body
AssignedNames(body) ==
  Flatten([i \in 1..Len(body) |->
     IF body[i].node = "Assign"
     THEN Flatten([j \in 1..Len(body[i].targets) |-> TargetNames(body[i].targets[j])])
     ELSE IF body[i].node = "AnnAssign" /\ body[i].value # PyNone
     THEN TargetNames(body[i].target)
     ELSE <<>>])

\* C27: the record of a Python file has one ContainerNode per class
\* definition, and its container_vars are the names assigned by the
\* statements directly in the class body, in order, none of them a name
\* assigned inside a method.
C27_MemberVariablesAreTheBodyAssignments ==
  \A r \in ReturnedRecords :
    LET classes == SelectSeq(WalkedNodes(r), LAMBDA n : n.node = "ClassDef")
        containers == r.value.containers
    IN /\ Len(containers) = Len(classes)
       /\ \A i \in 1..Len(classes) :
            /\ containers[i].name = classes[i].name
            /\ containers[i].container_vars = AssignedNames(classes[i].body)

\* name, alias and level of the imported names of the import statements
\* among nodes: level 0 for an absolute import, the number of leading dots
\* for a relative one
ImportedNames(nodes) ==
  Flatten([k \in 1..Len(nodes) |->
     IF nodes[k].node \in {"Import", "ImportFrom"}
     THEN [i \in 1..Len(nodes[k].names) |->
             <<nodes[k].names[i].name, nodes[k].names[i].asname,
               IF nodes[k].node = "Import" THEN 0 ELSE nodes[k].level>>]
     ELSE <<>>])

\* C28: the record of a Python file has one ImportNode per imported name of
\* each import statement, with that name and its alias; the level is 0 for
\* an absolute import and the relative depth for a relative one.
C28_OneImportRecordPerName ==
  \A r \in ReturnedRecords :
    [i \in 1..Len(r.value.imports) |->
       <<r.value.imports[i].name, r.value.imports[i].alias, r.value.imports[i].level>>]
      = ImportedNames(WalkedNodes(r))

\* a record returned for a module with a three-name import of depth 2 and
\* an import inside a function
C28_Witness ==
  \E r \in ReturnedRecords :
    /\ \E i \in 1..Len(r.value.imports) :
         r.value.imports[i].level = 2 /\ r.value.imports[i].name = "c"
    /\ \E i \in 1..Len(r.value.imports) :
         r.value.imports[i].level = 0 /\ r.value.imports[i].name = "json"
    /\ Len(r.value.imports) = 4


====
